---------------------------- MODULE Spec2Model ----------------------------
(***************************************************************************)
(* A model of the Power BI schema extraction and DAX dependency analysis   *)
(* engine: PBIXParser._parse_data_model_schema (src/pbit_extractor.py),    *)
(* PowerBIAnalyzer.analyze_dax_dependencies and the expression normalizer  *)
(* _safe_get_expression (src/pbi_model_extractor.py).                      *)
(*                                                                         *)
(* Text is a sequence of one-character strings, so that the regular        *)
(* expressions of the analyzer are matched character by character.  A JSON *)
(* value is a record [t |-> tag, v |-> payload]; a Python dict is a        *)
(* function from its keys to JSON values.                                  *)
(***************************************************************************)
EXTENDS Integers, Sequences, FiniteSets, TLC

(***************************************************************************)
(* Characters                                                              *)
(***************************************************************************)
UpperChars == <<"A","B","C","D","E","F","G","H","I","J","K","L","M",
                "N","O","P","Q","R","S","T","U","V","W","X","Y","Z">>

LowerChars == <<"a","b","c","d","e","f","g","h","i","j","k","l","m",
                "n","o","p","q","r","s","t","u","v","w","x","y","z">>

DigitChars == <<"0","1","2","3","4","5","6","7","8","9">>

\* the printable ASCII characters in code-point order, from 32 (space); the
\* double quote, the backslash and the backtick are written by name
AsciiChars == <<" ","!","<dquote>","#","$","%","&","'","(",")","*","+",",","-",".","/",
                "0","1","2","3","4","5","6","7","8","9",":",";","<","=",">","?",
                "@","A","B","C","D","E","F","G","H","I","J","K","L","M","N","O",
                "P","Q","R","S","T","U","V","W","X","Y","Z","[","<bslash>","]","^","_",
                "<btick>","a","b","c","d","e","f","g","h","i","j","k","l","m","n","o",
                "p","q","r","s","t","u","v","w","x","y","z","{","|","}","~">>

Range(s) == {s[i] : i \in DOMAIN s}

\* the code point of a character: what Python's str comparison orders by
Ord(c) ==
    IF c = "\t" THEN 9
    ELSE IF c = "\n" THEN 10
    ELSE IF c = "\r" THEN 13
    ELSE 31 + (CHOOSE i \in DOMAIN AsciiChars : AsciiChars[i] = c)

\* re.IGNORECASE compares characters by their case-folded form
FoldCase(c) ==
    IF c \in Range(UpperChars)
    THEN LowerChars[CHOOSE i \in DOMAIN UpperChars : UpperChars[i] = c]
    ELSE c

\* \w of a str pattern
IsWordChar(c) == c \in Range(UpperChars) \cup Range(LowerChars) \cup Range(DigitChars) \cup {"_"}

\* \s of a str pattern
IsSpaceChar(c) == c \in {" ", "\t", "\n", "\r"}

(***************************************************************************)
(* JSON values, as json.load builds them                                   *)
(***************************************************************************)
None == [t |-> "null", v |-> 0]
Str(s) == [t |-> "str", v |-> s]
Num(n) == [t |-> "num", v |-> n]
Bool(b) == [t |-> "bool", v |-> b]
List(l) == [t |-> "list", v |-> l]
Dict(d) == [t |-> "dict", v |-> d]

EmptyDict == Dict([k \in {} |-> None])

IsStr(x) == x.t = "str"
IsList(x) == x.t = "list"
IsDict(x) == x.t = "dict"

\* bool(x): None, False, 0, '', [] and {} are false
Truthy(x) ==
    CASE x.t = "null" -> FALSE
      [] x.t = "bool" -> x.v
      [] x.t = "num" -> x.v # 0
      [] x.t = "str" -> x.v # <<>>
      [] x.t = "list" -> x.v # <<>>
      [] x.t = "dict" -> DOMAIN x.v # {}

\* d.get(k, default) of a dict d (the caller has checked that d is one)
Get(d, k, default) == IF k \in DOMAIN d.v THEN d.v[k] ELSE default

HasKey(d, k) == k \in DOMAIN d.v

\* d with d[k] = x
Put(d, k, x) == Dict([j \in DOMAIN d.v \cup {k} |-> IF j = k THEN x ELSE d.v[j]])

\* a sequence holding the elements of a finite set, in some order
RECURSIVE SetToSeq(_)
SetToSeq(S) == IF S = {} THEN <<>>
               ELSE LET x == CHOOSE y \in S : TRUE IN <<x>> \o SetToSeq(S \ {x})

\* "for e in x": the elements a for loop draws from x; a value that is not
\* iterable raises TypeError (ok = FALSE)
Iter(x) ==
    CASE x.t = "list" -> [ok |-> TRUE, items |-> x.v]
      [] x.t = "str" -> [ok |-> TRUE, items |-> [i \in DOMAIN x.v |-> Str(<<x.v[i]>>)]]
      [] x.t = "dict" -> [ok |-> TRUE,
                          items |-> LET ks == SetToSeq(DOMAIN x.v)
                                    IN [i \in DOMAIN ks |-> Str(<<ks[i]>>)]]
      [] OTHER -> [ok |-> FALSE, items |-> <<>>]

\* the decimal digits of a natural number
RECURSIVE Digits(_)
Digits(n) == IF n < 10 THEN <<DigitChars[n + 1]>>
             ELSE Digits(n \div 10) \o <<DigitChars[(n % 10) + 1]>>

\* str(x) of a scalar
PyStr(x) ==
    CASE x.t = "str" -> x.v
      [] x.t = "null" -> <<"N","o","n","e">>
      [] x.t = "bool" -> IF x.v THEN <<"T","r","u","e">> ELSE <<"F","a","l","s","e">>
      [] x.t = "num" -> Digits(x.v)

\* sep.join(parts) for a sequence of texts
RECURSIVE Join(_, _)
Join(sep, parts) ==
    IF parts = <<>> THEN <<>>
    ELSE IF Len(parts) = 1 THEN parts[1]
    ELSE parts[1] \o sep \o Join(sep, Tail(parts))

(***************************************************************************)
(* The expression normalizer                                               *)
(***************************************************************************)
\* _safe_get_expression without its "expr is None" branch
safe_get_expression_without_none(obj, key) ==
    LET expr == Get(obj, key, Str(<<>>))
    IN CASE expr.t = "list" -> Join(<<"\n">>, [i \in DOMAIN expr.v |-> PyStr(expr.v[i])])
         [] expr.t = "str" -> expr.v
         [] OTHER -> PyStr(expr)

\* PowerBIAnalyzer._safe_get_expression(obj, key): the text it returns
safe_get_expression(obj, key) ==
    LET expr == Get(obj, key, Str(<<>>))
    IN CASE expr.t = "list" -> Join(<<"\n">>, [i \in DOMAIN expr.v |-> PyStr(expr.v[i])])
         [] expr.t = "str" -> expr.v
         [] expr.t = "null" -> <<>>
         [] OTHER -> PyStr(expr)

\* PBIXParser._safe_get_expression(obj, key), the parser's copy of the method
parser_safe_get_expression(obj, key) ==
    LET expr == Get(obj, key, Str(<<>>))
    IN CASE expr.t = "list" -> Join(<<"\n">>, [i \in DOMAIN expr.v |-> PyStr(expr.v[i])])
         [] expr.t = "str" -> expr.v
         [] expr.t = "null" -> <<>>
         [] OTHER -> PyStr(expr)

(***************************************************************************)
(* The schema normalizer: PBIXParser._parse_data_model_schema              *)
(*                                                                         *)
(* Every parse operator returns a record whose field exc names the         *)
(* exception the code raises there ("" when it raises none).               *)
(***************************************************************************)
EmptyList == List(<<>>)
EmptyStr == Str(<<>>)

\* the body of a for loop applied to the elements in turn, up to the first
\* one that raises: out holds the results of the elements before it
RECURSIVE ParseEach(_, _)
ParseEach(F(_), items) ==
    IF items = <<>> THEN [exc |-> "", out |-> <<>>]
    ELSE LET r == F(Head(items))
         IN IF r.exc # "" THEN [exc |-> r.exc, out |-> <<>>]
            ELSE LET rest == ParseEach(F, Tail(items))
                 IN [exc |-> rest.exc, out |-> <<r>> \o rest.out]

\* for e in raw: F(e)
ForEach(F(_), raw) ==
    IF Iter(raw).ok THEN ParseEach(F, Iter(raw).items)
    ELSE [exc |-> "TypeError", out |-> <<>>]

\* the values v of a sequence of results, as a JSON list
Values(out) == List([i \in DOMAIN out |-> out[i].v])

\* the concatenation of a sequence of sequences
RECURSIVE Flatten(_)
Flatten(ss) == IF ss = <<>> THEN <<>> ELSE Head(ss) \o Flatten(Tail(ss))

\* f"{a}[{b}]"
Qualified(a, b) == PyStr(a) \o <<"[">> \o PyStr(b) \o <<"]">>

CalculatedType == Str(<<"c","a","l","c","u","l","a","t","e","d">>)
DefaultSummarize == Str(<<"d","e","f","a","u","l","t">>)

\* one column of a table: col_info, and the qualified name added to
\* all_calculated_columns when the raw expression is truthy
ParseColumn(table, col) ==
    IF ~IsDict(col) THEN [exc |-> "AttributeError", v |-> None, calc |-> <<>>]
    ELSE LET col_info == Dict([
                 name |-> Get(col, "name", None),
                 dataType |-> Get(col, "dataType", None),
                 isHidden |-> Get(col, "isHidden", Bool(FALSE)),
                 isKey |-> Get(col, "isKey", Bool(FALSE)),
                 isNullable |-> Get(col, "isNullable", Bool(TRUE)),
                 sourceColumn |-> Get(col, "sourceColumn", None),
                 formatString |-> Get(col, "formatString", None),
                 dataCategory |-> Get(col, "dataCategory", None),
                 summarizeBy |-> Get(col, "summarizeBy", DefaultSummarize),
                 displayFolder |-> Get(col, "displayFolder", EmptyStr),
                 description |-> Get(col, "description", EmptyStr),
                 expression |-> Get(col, "expression", None),
                 sortByColumn |-> Get(col, "sortByColumn", None),
                 annotations |-> Get(col, "annotations", EmptyList)])
         IN IF ~Truthy(col_info.v.expression)
            THEN [exc |-> "", v |-> col_info, calc |-> <<>>]
            ELSE IF ~HasKey(table, "name") \/ ~HasKey(col, "name")
            THEN [exc |-> "KeyError", v |-> None, calc |-> <<>>]
            ELSE [exc |-> "", v |-> col_info,
                  calc |-> <<Str(Qualified(table.v.name, col.v.name))>>]

\* one measure of a table: measure_info, and the entry added to all_measures
ParseMeasure(table, measure) ==
    IF ~IsDict(measure) THEN [exc |-> "AttributeError", v |-> None, entry |-> None]
    ELSE LET measure_info == Dict([
                 name |-> Get(measure, "name", None),
                 expression |-> Get(measure, "expression", None),
                 formatString |-> Get(measure, "formatString", None),
                 isHidden |-> Get(measure, "isHidden", Bool(FALSE)),
                 displayFolder |-> Get(measure, "displayFolder", EmptyStr),
                 description |-> Get(measure, "description", EmptyStr),
                 lineageTag |-> Get(measure, "lineageTag", None),
                 annotations |-> Get(measure, "annotations", EmptyList)])
         IN IF ~HasKey(table, "name") \/ ~HasKey(measure, "name")
            THEN [exc |-> "KeyError", v |-> None, entry |-> None]
            ELSE [exc |-> "", v |-> measure_info,
                  entry |-> Dict([
                      table |-> table.v.name,
                      measure |-> measure.v.name,
                      expression |-> Get(measure, "expression", EmptyStr),
                      displayFolder |-> Get(measure, "displayFolder", EmptyStr)])]

ParseLevel(level) ==
    IF ~IsDict(level) THEN [exc |-> "AttributeError", v |-> None]
    ELSE [exc |-> "",
          v |-> Dict([name |-> Get(level, "name", None),
                      column |-> Get(level, "column", None),
                      ordinal |-> Get(level, "ordinal", None)])]

ParseHierarchy(hierarchy) ==
    IF ~IsDict(hierarchy) THEN [exc |-> "AttributeError", v |-> None]
    ELSE LET levels == ForEach(ParseLevel, Get(hierarchy, "levels", EmptyList))
         IN IF levels.exc # "" THEN [exc |-> levels.exc, v |-> None]
            ELSE [exc |-> "",
                  v |-> Dict([name |-> Get(hierarchy, "name", None),
                              isHidden |-> Get(hierarchy, "isHidden", Bool(FALSE)),
                              levels |-> Values(levels.out)])]

\* one partition of a table: part_info, and the table's name added to
\* all_calculated_tables when the source's type is "calculated"
ParsePartition(table, partition) ==
    IF ~IsDict(partition) THEN [exc |-> "AttributeError", v |-> None, calc |-> <<>>]
    ELSE LET part_info == Dict([
                 name |-> Get(partition, "name", None),
                 mode |-> Get(partition, "mode", None),
                 source |-> Get(partition, "source", EmptyDict),
                 annotations |-> Get(partition, "annotations", EmptyList)])
         IN IF ~IsDict(part_info.v.source)
            THEN [exc |-> "AttributeError", v |-> None, calc |-> <<>>]
            ELSE IF Get(part_info.v.source, "type", None) # CalculatedType
            THEN [exc |-> "", v |-> part_info, calc |-> <<>>]
            ELSE IF ~HasKey(table, "name")
            THEN [exc |-> "KeyError", v |-> None, calc |-> <<>>]
            ELSE [exc |-> "", v |-> part_info, calc |-> <<table.v.name>>]

NoTable(e) == [exc |-> e, v |-> None, measures |-> <<>>, calc_cols |-> <<>>, calc_tables |-> <<>>]

\* table_info and what the iteration adds to all_measures,
\* all_calculated_columns and all_calculated_tables, from the results of the
\* four inner loops
TableResult(table, columns, measures, hierarchies, partitions) ==
    IF columns.exc # "" THEN NoTable(columns.exc)
    ELSE IF measures.exc # "" THEN NoTable(measures.exc)
    ELSE IF hierarchies.exc # "" THEN NoTable(hierarchies.exc)
    ELSE IF partitions.exc # "" THEN NoTable(partitions.exc)
    ELSE [exc |-> "",
          v |-> Dict([
              name |-> Get(table, "name", None),
              description |-> Get(table, "description", EmptyStr),
              isHidden |-> Get(table, "isHidden", Bool(FALSE)),
              isPrivate |-> Get(table, "isPrivate", Bool(FALSE)),
              lineageTag |-> Get(table, "lineageTag", None),
              columns |-> Values(columns.out),
              measures |-> Values(measures.out),
              hierarchies |-> Values(hierarchies.out),
              partitions |-> Values(partitions.out),
              annotations |-> Get(table, "annotations", EmptyList)]),
          measures |-> [i \in DOMAIN measures.out |-> measures.out[i].entry],
          calc_cols |-> Flatten([i \in DOMAIN columns.out |-> columns.out[i].calc]),
          calc_tables |-> Flatten([i \in DOMAIN partitions.out |-> partitions.out[i].calc])]

\* one iteration of "for table in model.get('tables', [])": an exception
\* anywhere in it leaves the loop
ParseTable(table) ==
    IF ~IsDict(table) THEN NoTable("AttributeError")
    ELSE TableResult(table,
             ForEach(LAMBDA c : ParseColumn(table, c), Get(table, "columns", EmptyList)),
             ForEach(LAMBDA m : ParseMeasure(table, m), Get(table, "measures", EmptyList)),
             ForEach(ParseHierarchy, Get(table, "hierarchies", EmptyList)),
             ForEach(LAMBDA p : ParsePartition(table, p), Get(table, "partitions", EmptyList)))

ParseRelationship(rel) ==
    IF ~IsDict(rel) THEN [exc |-> "AttributeError", v |-> None]
    ELSE [exc |-> "",
          v |-> Dict([
              name |-> Get(rel, "name", None),
              fromTable |-> Get(rel, "fromTable", None),
              fromColumn |-> Get(rel, "fromColumn", None),
              toTable |-> Get(rel, "toTable", None),
              toColumn |-> Get(rel, "toColumn", None),
              fromCardinality |-> Get(rel, "fromCardinality", None),
              toCardinality |-> Get(rel, "toCardinality", None),
              crossFilteringBehavior |-> Get(rel, "crossFilteringBehavior", None),
              securityFilteringBehavior |-> Get(rel, "securityFilteringBehavior", None),
              isActive |-> Get(rel, "isActive", Bool(TRUE)),
              relyOnReferentialIntegrity |-> Get(rel, "relyOnReferentialIntegrity", Bool(FALSE)),
              annotations |-> Get(rel, "annotations", EmptyList)])]

ParseCulture(culture) ==
    IF ~IsDict(culture) THEN [exc |-> "AttributeError", v |-> None]
    ELSE [exc |-> "",
          v |-> Dict([name |-> Get(culture, "name", None),
                      linguisticMetadata |-> Get(culture, "linguisticMetadata", EmptyDict)])]

ParsePerspective(perspective) ==
    IF ~IsDict(perspective) THEN [exc |-> "AttributeError", v |-> None]
    ELSE [exc |-> "",
          v |-> Dict([name |-> Get(perspective, "name", None),
                      description |-> Get(perspective, "description", EmptyStr),
                      annotations |-> Get(perspective, "annotations", EmptyList)])]

ParsePermission(perm) ==
    IF ~IsDict(perm) THEN [exc |-> "AttributeError", v |-> None]
    ELSE [exc |-> "",
          v |-> Dict([name |-> Get(perm, "name", None),
                      filterExpression |-> Get(perm, "filterExpression", None),
                      annotations |-> Get(perm, "annotations", EmptyList)])]

ParseRole(role) ==
    IF ~IsDict(role) THEN [exc |-> "AttributeError", v |-> None]
    ELSE LET perms == ForEach(ParsePermission, Get(role, "tablePermissions", EmptyList))
         IN IF perms.exc # "" THEN [exc |-> perms.exc, v |-> None]
            ELSE [exc |-> "",
                  v |-> Dict([name |-> Get(role, "name", None),
                              description |-> Get(role, "description", EmptyStr),
                              modelPermission |-> Get(role, "modelPermission", None),
                              tablePermissions |-> Values(perms.out)])]

\* the DataModelSchema file of the extracted container
MissingFile == [t |-> "missing", v |-> 0]
GarbledFile == [t |-> "garbled", v |-> 0]
UndecodableFile == [t |-> "undecodable", v |-> 0]
JsonFile(doc) == [t |-> "json", v |-> doc]

\* the Python exceptions that are subclasses of Exception
ExceptionClasses == {"AttributeError", "TypeError", "KeyError", "JSONDecodeError",
                     "UnicodeDecodeError"}

\* results['dataModel'] as line 199 sets it
ModelHeader(model) ==
    Dict([name |-> Get(model, "name", None),
          description |-> Get(model, "description", None),
          culture |-> Get(model, "culture", None),
          defaultMode |-> Get(model, "defaultMode", None),
          tables |-> EmptyList,
          relationships |-> EmptyList,
          cultures |-> EmptyList,
          perspectives |-> EmptyList,
          roles |-> EmptyList,
          annotations |-> Get(model, "annotations", EmptyList)])

\* results['dataModel']['summary'] of lines 359-369
Summary(tables, relationships, roles) ==
    Dict([totalTables |-> Num(Len(tables.out)),
          totalMeasures |-> Num(Len(Flatten([i \in DOMAIN tables.out |-> tables.out[i].measures]))),
          totalRelationships |-> Num(Len(relationships.out)),
          totalRoles |-> Num(Len(roles.out)),
          totalCalculatedColumns |->
              Num(Len(Flatten([i \in DOMAIN tables.out |-> tables.out[i].calc_cols]))),
          totalCalculatedTables |->
              Num(Len(Flatten([i \in DOMAIN tables.out |-> tables.out[i].calc_tables]))),
          allMeasures |-> List(Flatten([i \in DOMAIN tables.out |-> tables.out[i].measures])),
          calculatedColumns |-> List(Flatten([i \in DOMAIN tables.out |-> tables.out[i].calc_cols])),
          calculatedTables |-> List(Flatten([i \in DOMAIN tables.out |-> tables.out[i].calc_tables]))])

\* the exception that ends the five loops: that of the first loop that raises
FirstException(excs) ==
    IF \A i \in DOMAIN excs : excs[i] = "" THEN ""
    ELSE excs[CHOOSE i \in DOMAIN excs : excs[i] # "" /\ \A j \in 1 .. (i - 1) : excs[j] = ""]

\* the dataModel the five loops leave: each list holds what its loop appended
\* (nothing when an earlier loop raised), and the summary is stored only when
\* no loop raised
ModelAfter(header, tables, relationships, cultures, perspectives, roles) ==
    LET Ran(n) == \A i \in 1 .. (n - 1) :
                     <<tables.exc, relationships.exc, cultures.exc, perspectives.exc>>[i] = ""
        Filled == [j \in DOMAIN header.v |->
                     CASE j = "tables" -> Values(tables.out)
                       [] j = "relationships" -> IF Ran(2) THEN Values(relationships.out) ELSE EmptyList
                       [] j = "cultures" -> IF Ran(3) THEN Values(cultures.out) ELSE EmptyList
                       [] j = "perspectives" -> IF Ran(4) THEN Values(perspectives.out) ELSE EmptyList
                       [] j = "roles" -> IF Ran(5) THEN Values(roles.out) ELSE EmptyList
                       [] OTHER -> header.v[j]]
    IN IF Ran(5) /\ roles.exc = ""
       THEN Put(Dict(Filled), "summary", Summary(tables, relationships, roles))
       ELSE Dict(Filled)

\* the tables loop with a handler of its own around each table: an entry
\* that raises is skipped and the loop goes on
ParseTablesSkipping(raw) ==
    IF ~Iter(raw).ok THEN [exc |-> "TypeError", out |-> <<>>]
    ELSE [exc |-> "",
          out |-> SelectSeq([i \in DOMAIN Iter(raw).items |-> ParseTable(Iter(raw).items[i])],
                            LAMBDA r : r.exc = "")]

\* for table in model.get('tables', []): ... (lines 217-305)
ParseTables(raw) == ForEach(ParseTable, raw)

\* lines 199-369 with self.results.setdefault('dataModel', ...): the tables of
\* a call are appended to those an earlier call of the same parser left
NormalizeModelAccumulating(results, model) ==
    LET Kept(new) ==
            IF HasKey(results, "dataModel")
            THEN Put(new, "tables", List(results.v["dataModel"].v["tables"].v \o new.v["tables"].v))
            ELSE new
        Outcome(tables, relationships, cultures, perspectives, roles) ==
            [results |-> Put(results, "dataModel",
                             Kept(ModelAfter(ModelHeader(model), tables, relationships,
                                             cultures, perspectives, roles))),
             exc |-> FirstException(<<tables.exc, relationships.exc, cultures.exc,
                                      perspectives.exc, roles.exc>>),
             found |-> TRUE]
    IN Outcome(ParseTables(Get(model, "tables", EmptyList)),
               ForEach(ParseRelationship, Get(model, "relationships", EmptyList)),
               ForEach(ParseCulture, Get(model, "cultures", EmptyList)),
               ForEach(ParsePerspective, Get(model, "perspectives", EmptyList)),
               ForEach(ParseRole, Get(model, "roles", EmptyList)))

\* lines 199-369 for a model that is a record
NormalizeModel(results, model) ==
    LET Outcome(tables, relationships, cultures, perspectives, roles) ==
            [results |-> Put(results, "dataModel",
                             ModelAfter(ModelHeader(model), tables, relationships, cultures,
                                        perspectives, roles)),
             exc |-> FirstException(<<tables.exc, relationships.exc, cultures.exc,
                                      perspectives.exc, roles.exc>>),
             found |-> TRUE]
    IN Outcome(ParseTables(Get(model, "tables", EmptyList)),
               ForEach(ParseRelationship, Get(model, "relationships", EmptyList)),
               ForEach(ParseCulture, Get(model, "cultures", EmptyList)),
               ForEach(ParsePerspective, Get(model, "perspectives", EmptyList)),
               ForEach(ParseRole, Get(model, "roles", EmptyList)))

\* schema.get('model'), without the default
ModelOfWithoutDefault(schema) == Get(schema, "model", None)

\* model = schema.get('model', {})
ModelOf(schema) == Get(schema, "model", EmptyDict)

\* the statements of _parse_data_model_schema inside its try block, run on the
\* file and the parser's results: the results as the statements leave them,
\* the exception raised (if any), and whether the file was found
ParseBody(file, results) ==
    IF file.t = "missing" THEN [results |-> results, exc |-> "", found |-> FALSE]
    ELSE IF file.t = "undecodable"
    THEN [results |-> results, exc |-> "UnicodeDecodeError", found |-> TRUE]
    ELSE IF file.t = "garbled" THEN [results |-> results, exc |-> "JSONDecodeError", found |-> TRUE]
    ELSE IF ~IsDict(file.v) THEN [results |-> results, exc |-> "AttributeError", found |-> TRUE]
    ELSE IF ~IsDict(ModelOf(file.v))
    THEN [results |-> results, exc |-> "AttributeError", found |-> TRUE]
    ELSE NormalizeModel(results, ModelOf(file.v))

\* except (json.JSONDecodeError, UnicodeDecodeError): a handler for the
\* errors of reading the file only
HandledWhenDecoding(exc) == exc \in {"JSONDecodeError", "UnicodeDecodeError"}

\* try: ... except Exception as e: print(...): the exception of the body is
\* caught when its class is an Exception, and propagates otherwise
Handled(exc) == exc \in ExceptionClasses

\* _parse_data_model_schema: the results it leaves, whether it printed an
\* error, and the exception that leaves the call ("" when it returns)
parse_data_model_schema(file, results) ==
    LET body == ParseBody(file, results)
    IN [results |-> body.results,
        found |-> body.found,
        error |-> body.exc # "" /\ Handled(body.exc),
        raised |-> IF Handled(body.exc) THEN "" ELSE body.exc]

(***************************************************************************)
(* Regular expressions, as re.search(pattern, dax, re.IGNORECASE) matches  *)
(* the patterns of analyze_dax_dependencies.  A pattern is a sequence of   *)
(* elements: \b, a literal (what re.escape makes of a name) and \s*.       *)
(***************************************************************************)
WordBoundary == [k |-> "b", s |-> <<>>]
Literal(s) == [k |-> "lit", s |-> s]
Spaces == [k |-> "ws", s |-> <<>>]

\* whether position i of the text holds a word character
WordAt(text, i) == i \in DOMAIN text /\ IsWordChar(text[i])

\* \b before position i
AtBoundary(text, i) == WordAt(text, i - 1) # WordAt(text, i)

\* the literal matches at position i, case-insensitively
LiteralAt(text, i, lit) ==
    /\ i + Len(lit) - 1 <= Len(text)
    /\ \A j \in DOMAIN lit : FoldCase(text[i + j - 1]) = FoldCase(lit[j])

\* the positions \s* can stop at when it starts at position i
SpaceRun(text, i) ==
    {j \in i .. (Len(text) + 1) : \A m \in i .. (j - 1) : IsSpaceChar(text[m])}

\* the positions at which a match of the pattern that starts at i can end
RECURSIVE MatchEnds(_, _, _)
MatchEnds(pattern, text, i) ==
    IF pattern = <<>> THEN {i}
    ELSE LET e == Head(pattern)
         IN CASE e.k = "b" ->
                   IF AtBoundary(text, i) THEN MatchEnds(Tail(pattern), text, i) ELSE {}
              [] e.k = "lit" ->
                   IF LiteralAt(text, i, e.s)
                   THEN MatchEnds(Tail(pattern), text, i + Len(e.s)) ELSE {}
              [] e.k = "ws" ->
                   UNION {MatchEnds(Tail(pattern), text, j) : j \in SpaceRun(text, i)}

\* re.search(pattern, text, re.IGNORECASE) finds a match
Search(pattern, text) ==
    \E i \in 1 .. (Len(text) + 1) : MatchEnds(pattern, text, i) # {}

\* rf'{re.escape(table)}\s*\[', without the leading \b
TablePattern1Unanchored(table) == <<Literal(table), Spaces, Literal(<<"[">>)>>

\* rf'\b{re.escape(table)}\s*\['
TablePattern1(table) == <<WordBoundary, Literal(table), Spaces, Literal(<<"[">>)>>

\* rf"'{re.escape(table)}'\s*\["
TablePattern2(table) == <<Literal(<<"'">> \o table \o <<"'">>), Spaces, Literal(<<"[">>)>>

\* rf'\b{re.escape(table)}\s*\[\s*{re.escape(col)}\s*\]'
ColumnPattern1(table, col) ==
    <<WordBoundary, Literal(table), Spaces, Literal(<<"[">>), Spaces, Literal(col),
      Spaces, Literal(<<"]">>)>>

\* rf"'{re.escape(table)}'\s*\[\s*{re.escape(col)}\s*\]"
ColumnPattern2(table, col) ==
    <<Literal(<<"'">> \o table \o <<"'">>), Spaces, Literal(<<"[">>), Spaces, Literal(col),
      Spaces, Literal(<<"]">>)>>

\* rf'\[\s*{re.escape(other_measure)}\s*\]'
MeasurePattern(other_measure) ==
    <<Literal(<<"[">>), Spaces, Literal(other_measure), Spaces, Literal(<<"]">>)>>

\* the expression names the table: pattern1 or pattern2 is found
TableReferenced(table, dax) ==
    Search(TablePattern1(table), dax) \/ Search(TablePattern2(table), dax)

\* the expression names the column of the table
ColumnReferenced(table, col, dax) ==
    Search(ColumnPattern1(table, col), dax) \/ Search(ColumnPattern2(table, col), dax)

\* the measure pattern found where no table name or quote stands before the
\* bracket: a bracket that qualifies a column is not taken for a measure
MeasureReferencedUnqualified(other_measure, dax) ==
    \E i \in 1 .. (Len(dax) + 1) :
        /\ MatchEnds(MeasurePattern(other_measure), dax, i) # {}
        /\ ~WordAt(dax, i - 1)
        /\ (i - 1 \in DOMAIN dax => dax[i - 1] # "'")

\* the expression names the other measure
MeasureReferenced(other_measure, dax) == Search(MeasurePattern(other_measure), dax)

(***************************************************************************)
(* sorted() of a set of texts: ascending by code point                     *)
(***************************************************************************)
RECURSIVE TextLess(_, _)
TextLess(a, b) ==
    IF a = <<>> THEN b # <<>>
    ELSE IF b = <<>> THEN FALSE
    ELSE IF Ord(Head(a)) # Ord(Head(b)) THEN Ord(Head(a)) < Ord(Head(b))
    ELSE TextLess(Tail(a), Tail(b))

RECURSIVE Sorted(_)
Sorted(S) ==
    IF S = {} THEN <<>>
    ELSE LET least == CHOOSE a \in S : \A b \in S \ {a} : TextLess(a, b)
         IN <<least>> \o Sorted(S \ {least})

(***************************************************************************)
(* The dependency analyzer: PowerBIAnalyzer.analyze_dax_dependencies       *)
(***************************************************************************)
\* a value a set or a dict key can hold
Hashable(x) == x.t \notin {"list", "dict"}

\* x[k] for a string key k
Index(x, k) ==
    IF ~IsDict(x) THEN [exc |-> "TypeError", v |-> None]
    ELSE IF ~HasKey(x, k) THEN [exc |-> "KeyError", v |-> None]
    ELSE [exc |-> "", v |-> x.v[k]]

\* d.setdefault(key, value): the entry of a key already stored is kept
DictStoreKeepingFirst(d, entry) ==
    IF \E i \in DOMAIN d : d[i].name = entry.name THEN d ELSE Append(d, entry)

\* d[key] = value on an insertion-ordered dict held as a sequence of entries,
\* each with its key in the field name
DictStore(d, entry) ==
    IF \E i \in DOMAIN d : d[i].name = entry.name
    THEN [i \in DOMAIN d |-> IF d[i].name = entry.name THEN entry ELSE d[i]]
    ELSE Append(d, entry)

Keys(d) == {d[i].name : i \in DOMAIN d}

\* all_measures[...] with 'expression': measure.get('expression', ''), the
\* raw field instead of the normalized one
CollectMeasureRaw(table_name, measure) ==
    LET name == Index(measure, "name")
    IN IF ~IsDict(measure) THEN [exc |-> "AttributeError", v |-> None]
       ELSE IF name.exc # "" THEN [exc |-> name.exc, v |-> None]
       ELSE IF ~Hashable(name.v) THEN [exc |-> "TypeError", v |-> None]
       ELSE [exc |-> "",
             v |-> [name |-> name.v,
                    table |-> table_name,
                    expression |-> Get(measure, "expression", EmptyStr),
                    displayFolder |-> Get(measure, "displayFolder", EmptyStr)]]

\* all_measures[measure['name']] = {...} for one measure of a table
CollectMeasure(table_name, measure) ==
    LET name == Index(measure, "name")
    IN IF ~IsDict(measure) THEN [exc |-> "AttributeError", v |-> None]
       ELSE IF name.exc # "" THEN [exc |-> name.exc, v |-> None]
       ELSE IF ~Hashable(name.v) THEN [exc |-> "TypeError", v |-> None]
       ELSE [exc |-> "",
             v |-> [name |-> name.v,
                    table |-> table_name,
                    expression |-> Str(safe_get_expression(measure, "expression")),
                    displayFolder |-> Get(measure, "displayFolder", EmptyStr)]]

\* the "Build object lists" loop over the tables from position i on, with
\* what the earlier tables have put in all_tables, all_columns, all_measures
RECURSIVE CollectTables(_, _, _)
CollectTables(tables, i, acc) ==
    IF i > Len(tables) THEN acc
    ELSE LET table == tables[i]
             table_name == Index(table, "name")
             columns == ForEach(LAMBDA col : Index(col, "name"), Get(table, "columns", EmptyList))
             measures == ForEach(LAMBDA m : CollectMeasure(table_name.v, m),
                                 Get(table, "measures", EmptyList))
             Raise(e) == [acc EXCEPT !.exc = e]
         IN IF table_name.exc # "" THEN Raise(table_name.exc)
            ELSE IF ~Hashable(table_name.v) THEN Raise("TypeError")
            ELSE IF columns.exc # "" THEN Raise(columns.exc)
            ELSE IF measures.exc # "" THEN Raise(measures.exc)
            ELSE CollectTables(tables, i + 1,
                   [exc |-> "",
                    all_tables |-> acc.all_tables \cup {table_name.v},
                    all_columns |-> [n \in DOMAIN acc.all_columns \cup {table_name.v} |->
                                        IF n = table_name.v
                                        THEN [j \in DOMAIN columns.out |-> columns.out[j].v]
                                        ELSE acc.all_columns[n]],
                    all_measures |-> LET Store[j \in 0 .. Len(measures.out)] ==
                                             IF j = 0 THEN acc.all_measures
                                             ELSE DictStore(Store[j - 1], measures.out[j].v)
                                     IN Store[Len(measures.out)]])

NoLists == [exc |-> "", all_tables |-> {}, all_columns |-> <<>>, all_measures |-> <<>>]

\* lines 664-681: all_tables, all_columns and all_measures of the loaded data
BuildObjectLists(data) ==
    LET dm == data.v.dataModel
    IN IF ~IsDict(dm) THEN [NoLists EXCEPT !.exc = "AttributeError"]
       ELSE IF ~Iter(Get(dm, "tables", EmptyList)).ok THEN [NoLists EXCEPT !.exc = "TypeError"]
       ELSE CollectTables(Iter(Get(dm, "tables", EmptyList)).items, 1, NoLists)

\* sorted() of a set of strings, held as JSON strings
SortedStrs(S) == LET texts == Sorted({x.v : x \in S})
                 IN [i \in DOMAIN texts |-> Str(texts[i])]

\* the tables the expression references: one table of all_tables is added to
\* tables_used when one of its two patterns is found
TablesUsed(dax, all_tables) == {t \in all_tables : TableReferenced(t.v, dax)}

\* the columns of every table, searched for each referenced table
ColumnsOfAnyTable(table, all_columns) == UNION {Range(all_columns[t]) : t \in DOMAIN all_columns}

\* the columns searched for a referenced table
ColumnsOf(table, all_columns) == Range(all_columns[table])

\* columns_used filled by a loop of its own over every table, a column being
\* taken for referenced when the text holds its name in brackets
ColumnsUsedByName(dax, all_tables, all_columns) ==
    {Str(Qualified(t, c)) : <<t, c>> \in
        {<<t, c>> \in UNION {{t} \X Range(all_columns[t]) : t \in all_tables} :
            IsStr(c) /\ MeasureReferenced(c.v, dax)}}

\* the "Table[Column]" strings added to columns_used
ColumnsUsed(dax, all_tables, all_columns) ==
    {Str(Qualified(t, c)) : <<t, c>> \in
        {<<t, c>> \in UNION {{t} \X ColumnsOf(t, all_columns) : t \in TablesUsed(dax, all_tables)} :
            ColumnReferenced(t.v, c.v, dax)}}

\* every measure compared with the expression, without
\* "if other_measure != measure_name"
EveryMeasure(measure_name, all_measures) == Keys(all_measures)

\* the other measures compared with the expression of measure_name
OtherMeasures(measure_name, all_measures) == Keys(all_measures) \ {measure_name}

\* the measures added to measures_used
MeasuresUsed(measure_name, dax, all_measures) ==
    {m \in OtherMeasures(measure_name, all_measures) : MeasureReferenced(m.v, dax)}

\* re.escape(name) raises TypeError for a name that is not a string, and
\* re.search(pattern, dax) for a dax that is not one: whether the scan of the
\* measure reaches such a call
ScanRaises(measure, all_tables, all_columns, all_measures) ==
    \/ \E t \in all_tables : ~IsStr(t)
    \/ all_tables # {} /\ ~IsStr(measure.expression)
    \/ \E t \in TablesUsed(measure.expression.v, all_tables) :
          \E c \in ColumnsOf(t, all_columns) : ~IsStr(c)
    \/ \E m \in OtherMeasures(measure.name, all_measures) : ~IsStr(m)
    \/ OtherMeasures(measure.name, all_measures) # {} /\ ~IsStr(measure.expression)

\* lines 688-722: the forward record of one measure
ScanMeasure(measure, all_tables, all_columns, all_measures) ==
    IF ScanRaises(measure, all_tables, all_columns, all_measures)
    THEN [exc |-> "TypeError", v |-> None]
    ELSE [exc |-> "",
          v |-> [name |-> measure.name,
                 table |-> measure.table,
                 displayFolder |-> measure.displayFolder,
                 tables |-> SortedStrs(TablesUsed(measure.expression.v, all_tables)),
                 columns |-> SortedStrs(ColumnsUsed(measure.expression.v, all_tables, all_columns)),
                 measures |-> SortedStrs(MeasuresUsed(measure.name, measure.expression.v, all_measures))]]

\* reverse_deps[used_measure] = [measure_name]: the entry is overwritten
\* instead of appended to
AppendUserOverwriting(reverse, used_measure, measure_name) ==
    IF used_measure \in Keys(reverse)
    THEN [i \in DOMAIN reverse |->
             IF reverse[i].name = used_measure
             THEN [reverse[i] EXCEPT !.users = <<measure_name>>]
             ELSE reverse[i]]
    ELSE Append(reverse, [name |-> used_measure, users |-> <<measure_name>>])

\* reverse_deps[measure_name].append(used_measure): the two names exchanged
AppendUserExchanged(reverse, used_measure, measure_name) ==
    IF measure_name \in Keys(reverse)
    THEN [i \in DOMAIN reverse |->
             IF reverse[i].name = measure_name
             THEN [reverse[i] EXCEPT !.users = Append(@, used_measure)]
             ELSE reverse[i]]
    ELSE Append(reverse, [name |-> measure_name, users |-> <<used_measure>>])

\* reverse_deps[used_measure].append(measure_name) on the defaultdict(list),
\* held as a sequence of entries [name |-> used_measure, users |-> list]
AppendUser(reverse, used_measure, measure_name) ==
    IF used_measure \in Keys(reverse)
    THEN [i \in DOMAIN reverse |->
             IF reverse[i].name = used_measure
             THEN [reverse[i] EXCEPT !.users = Append(@, measure_name)]
             ELSE reverse[i]]
    ELSE Append(reverse, [name |-> used_measure, users |-> <<measure_name>>])

\* lines 749-753: the reverse index, from the forward records i, i+1, ... in
\* their order and the measures j, j+1, ... of record i
RECURSIVE ReverseFrom(_, _, _, _)
ReverseFrom(dependencies, i, j, reverse) ==
    IF i > Len(dependencies) THEN reverse
    ELSE IF j > Len(dependencies[i].measures) THEN ReverseFrom(dependencies, i + 1, 1, reverse)
    ELSE ReverseFrom(dependencies, i, j + 1,
                     AppendUser(reverse, dependencies[i].measures[j], dependencies[i].name))

BuildReverse(dependencies) == ReverseFrom(dependencies, 1, 1, <<>>)

\* set(all_measures.keys()) minus the measures found in the used-by lists:
\* the dependents taken for the referenced
UnusedMeasuresByUsers(all_measures, reverse) ==
    Keys(all_measures) \ UNION {Range(reverse[i].users) : i \in DOMAIN reverse}

\* line 769: set(all_measures.keys()) - set(reverse_deps.keys())
UnusedMeasures(all_measures, reverse) == Keys(all_measures) \ Keys(reverse)

(***************************************************************************)
(* The reports of the dependency analysis                                  *)
(***************************************************************************)
\* the names a sequence of entries holds, as sorted(d.keys()) lists them
SortedKeys(d) == SortedStrs(Keys(d))

\* the entry of a key
Entry(d, key) == d[CHOOSE i \in DOMAIN d : d[i].name = key]

\* a used-by list as the report loop takes it: reverse_deps[measure_name]
\* without sorted()
DependentsUnsorted(users) == users

\* for dependent in sorted(reverse_deps[measure_name])
Dependents(users) == SortedStrs(Range(users))

\* DAX_Reverse_Dependencies.txt (lines 762-765): for each referenced measure,
\* in sorted order, the measures that use it
ReverseReport(reverse) ==
    LET names == SortedKeys(reverse)
    IN [i \in DOMAIN names |->
           [name |-> names[i], users |-> Dependents(Entry(reverse, names[i]).users)]]

(***************************************************************************)
(* The validator: PowerBIAnalyzer.validate_model                           *)
(***************************************************************************)
\* the number of calculated columns a table may have without a warning
CalcColumnLimit == 5

Many == Str(<<"m","a","n","y">>)
BothDirections == Str(<<"b","o","t","h","D","i","r","e","c","t","i","o","n","s">>)

\* len(calc_cols) >= 5: the limit itself taken for too many
TooManyCalculatedFromLimit(n) == n >= CalcColumnLimit

\* len(calc_cols) > 5
TooManyCalculated(n) == n > CalcColumnLimit

\* x['fromTable'], x['toTable'], x['name'] put in a set or looked up in one:
\* the exception of the subscript or of hashing the value
Hashed(x, k) ==
    IF Index(x, k).exc # "" THEN Index(x, k).exc
    ELSE IF ~Hashable(Index(x, k).v) THEN "TypeError"
    ELSE ""

\* lines 793-796: tables_with_rels, and the exception of building it
TablesWithRels(rels) ==
    [exc |-> FirstException([i \in DOMAIN rels |->
                 FirstException(<<Hashed(rels[i], "fromTable"), Hashed(rels[i], "toTable")>>)]),
     names |-> {rels[i].v[k] : i \in DOMAIN rels, k \in {"fromTable", "toTable"}}]

\* [col for col in table.get('columns', []) if col.get('expression')]
CalcCols(table) ==
    SelectSeq(Get(table, "columns", EmptyList).v,
              LAMBDA col : Truthy(Get(col, "expression", None)))

\* [col for col in table.get('columns', []) if not col.get('isHidden')]
VisibleCols(table) ==
    SelectSeq(Get(table, "columns", EmptyList).v,
              LAMBDA col : ~Truthy(Get(col, "isHidden", None)))

\* the measures of a table that get the format-string warning
Unformatted(table) ==
    SelectSeq(Get(table, "measures", EmptyList).v,
              LAMBDA m : ~Truthy(Get(m, "formatString", None))
                         /\ ~Truthy(Get(m, "isHidden", None)))

\* the orphaned-table test made only for a table that has columns or measures
OrphanedUnlessEmpty(table, tables_with_rels) ==
    /\ table.v["name"] \notin tables_with_rels
    /\ ~Truthy(Get(table, "isHidden", None))
    /\ (Truthy(Get(table, "columns", None)) \/ Truthy(Get(table, "measures", None)))

\* table_name not in tables_with_rels and not table.get('isHidden')
Orphaned(table, tables_with_rels) ==
    /\ table.v["name"] \notin tables_with_rels
    /\ ~Truthy(Get(table, "isHidden", None))

\* lines 798-822 for one table: the issues and the warnings it appends, in
\* their order
TableFindings(table, tables_with_rels) ==
    IF Hashed(table, "name") # ""
    THEN [exc |-> Hashed(table, "name"), issues |-> <<>>, warnings |-> <<>>]
    ELSE LET table_name == table.v["name"]
         IN [exc |-> "",
             issues |->
                 IF ~Truthy(Get(table, "columns", None)) /\ ~Truthy(Get(table, "measures", None))
                 THEN <<[kind |-> "empty", table |-> table_name]>>
                 ELSE <<>>,
             warnings |->
                 (IF Orphaned(table, tables_with_rels)
                  THEN <<[kind |-> "orphaned", table |-> table_name]>> ELSE <<>>)
                 \o (IF TooManyCalculated(Len(CalcCols(table)))
                     THEN <<[kind |-> "calculated", table |-> table_name,
                             n |-> Len(CalcCols(table))]>>
                     ELSE <<>>)
                 \o [i \in DOMAIN Unformatted(table) |->
                        [kind |-> "format", table |-> table_name,
                         measure |-> Unformatted(table)[i].v["name"]]]
                 \o (IF Truthy(Get(table, "isHidden", None)) /\ VisibleCols(table) # <<>>
                     THEN <<[kind |-> "visible", table |-> table_name,
                             n |-> Len(VisibleCols(table))]>>
                     ELSE <<>>)]

\* a validation that reports nothing about the relationships
NoRelationshipWarnings(rels) == <<>>

\* lines 825-838: the warnings about the relationships
RelationshipWarnings(rels) ==
    LET Count(kind, Test(_)) ==
            IF SelectSeq(rels, Test) # <<>>
            THEN <<[kind |-> kind, n |-> Len(SelectSeq(rels, Test))]>>
            ELSE <<>>
    IN Count("inactive", LAMBDA rel : ~Truthy(Get(rel, "isActive", Bool(TRUE))))
       \o Count("bidirectional",
                LAMBDA rel : Get(rel, "crossFilteringBehavior", None) = BothDirections)
       \o Count("many_to_many",
                LAMBDA rel : Get(rel, "fromCardinality", None) = Many
                             /\ Get(rel, "toCardinality", None) = Many)

\* the findings of the tables loop, from what tables_with_rels holds
AllTableFindings(tables, tables_with_rels) ==
    [i \in DOMAIN tables |-> TableFindings(tables[i], tables_with_rels)]

\* the issues and warnings lists validate_model has built when it writes its
\* report, and the exception that ends it before that
Findings(found, rels_exc, rel_warnings) ==
    LET exc == FirstException(<<rels_exc>> \o [i \in DOMAIN found |-> found[i].exc])
    IN IF exc # "" THEN [exc |-> exc, issues |-> <<>>, warnings |-> <<>>]
       ELSE [exc |-> "",
             issues |-> Flatten([i \in DOMAIN found |-> found[i].issues]),
             warnings |-> Flatten([i \in DOMAIN found |-> found[i].warnings]) \o rel_warnings]

\* validate_model() on the loaded data
validate_model(data) ==
    LET Run(tables, with_rels, rels) ==
            Findings(AllTableFindings(tables, with_rels.names), with_rels.exc,
                     RelationshipWarnings(rels))
    IN Run(Get(data.v["dataModel"], "tables", EmptyList).v,
           TablesWithRels(Get(data.v["dataModel"], "relationships", EmptyList).v),
           Get(data.v["dataModel"], "relationships", EmptyList).v)

\* the counters of the statistics, had they been counted from the lists of
\* the Model when it has no summary
SummaryCountersCounted(dataModel) ==
    LET summary == Get(dataModel, "summary", EmptyDict)
    IN [totalTables |-> Get(summary, "totalTables",
                            Num(Len(Get(dataModel, "tables", EmptyList).v))),
        totalMeasures |-> Get(summary, "totalMeasures", Num(0)),
        totalCalculatedColumns |-> Get(summary, "totalCalculatedColumns", Num(0)),
        totalRelationships |-> Get(summary, "totalRelationships",
                                   Num(Len(Get(dataModel, "relationships", EmptyList).v))),
        totalRoles |-> Get(summary, "totalRoles", Num(0))]

\* the counters the statistics of the validation report show:
\* summary = dataModel.get('summary', {}), then summary.get(counter, 0)
SummaryCounters(dataModel) ==
    LET summary == Get(dataModel, "summary", EmptyDict)
    IN [totalTables |-> Get(summary, "totalTables", Num(0)),
        totalMeasures |-> Get(summary, "totalMeasures", Num(0)),
        totalCalculatedColumns |-> Get(summary, "totalCalculatedColumns", Num(0)),
        totalRelationships |-> Get(summary, "totalRelationships", Num(0)),
        totalRoles |-> Get(summary, "totalRoles", Num(0))]

\* self.data after validate_model, had it read the summary with
\* setdefault('summary', {}) instead of get('summary', {})
DataAfterValidationSetdefault(data) ==
    IF HasKey(data.v["dataModel"], "summary") THEN data
    ELSE Put(data, "dataModel", Put(data.v["dataModel"], "summary", EmptyDict))

\* self.data after validate_model: the method only reads it, through get()
\* and subscripts
DataAfterValidation(data) == data

(***************************************************************************)
(* The documents the model is run on                                       *)
(***************************************************************************)
\* the longest list of table entries of a schema document
MaxTables == 2

Sales == Str(<<"S","a","l","e","s">>)
Date == Str(<<"D","a","t","e">>)
SalesRegion == Str(<<"S","a","l","e","s","R","e","g","i","o","n">>)
Shapes == Str(<<"S","h","a","p","e","s">>)
Amount == Str(<<"A","m","o","u","n","t">>)
Year == Str(<<"Y","e","a","r">>)
Col == Str(<<"C","o","l">>)
Revenue == Str(<<"R","e","v","e","n","u","e">>)
TotalSales == Str(<<"T","o","t","a","l","S","a","l","e","s">>)
YoYGrowth == Str(<<"Y","o","Y","G","r","o","w","t","h">>)

\* a raw measure entry with a name and an expression field
RawMeasure(name, expression) == Dict([name |-> name, expression |-> expression])

\* the two tables of the end-to-end scenario
RawSales ==
    Dict([name |-> Sales,
          columns |-> List(<<Dict([name |-> Amount])>>),
          measures |-> List(<<
              RawMeasure(TotalSales, Str(<<"S","U","M","(","S","a","l","e","s","[","A","m","o","u","n","t","]",")">>)),
              RawMeasure(YoYGrowth, Str(<<"D","I","V","I","D","E","(","[","T","o","t","a","l","S","a","l","e","s","]",","," ","[","T","o","t","a","l","S","a","l","e","s","]",")">>))>>)])

RawDate == Dict([name |-> Date, columns |-> List(<<Dict([name |-> Year])>>)])

\* a hidden table whose measures name Sales at the start of a longer
\* identifier, bare, quoted and at the end of a longer identifier, and whose
\* second column is calculated
RawSalesRegion ==
    Dict([name |-> SalesRegion,
          isHidden |-> Bool(TRUE),
          columns |-> List(<<Dict([name |-> Col]),
                             Dict([name |-> Revenue, expression |-> Str(<<"[","C","o","l","]"," ","*"," ","2">>)])>>),
          measures |-> List(<<
              RawMeasure(Str(<<"O","n","l","y","R","e","g","i","o","n">>), Str(<<"S","a","l","e","s","R","e","g","i","o","n","[","C","o","l","]">>)),
              RawMeasure(Str(<<"B","a","r","e">>), Str(<<"S","a","l","e","s","[","R","e","v","e","n","u","e","]">>)),
              RawMeasure(Str(<<"Q","u","o","t","e","d">>), Str(<<"'","S","a","l","e","s","'","[","R","e","v","e","n","u","e","]">>)),
              RawMeasure(Str(<<"P","r","e","f","i","x","e","d">>), Str(<<"N","e","t","S","a","l","e","s","[","C","o","l","]">>))>>)])

\* a calculated table whose measures carry every raw shape of an expression:
\* a list of fragments, null, absent, a number, and fragments that reference
\* in another case and with spaces
RawShapes ==
    Dict([name |-> Shapes,
          partitions |-> List(<<Dict([name |-> Shapes, source |-> Dict([type |-> CalculatedType])])>>),
          measures |-> List(<<
              RawMeasure(Str(<<"F","r","a","g","s">>), List(<<Str(<<"V","A","R"," ","x"," ","="," ","1">>), Str(<<"R","E","T","U","R","N"," ","x">>)>>)),
              RawMeasure(Str(<<"N","u","l","l">>), None),
              Dict([name |-> Str(<<"A","b","s","e","n","t">>), formatString |-> Str(<<"0",".","0">>)]),
              RawMeasure(Str(<<"N","u","m","b","e","r">>), Num(12)),
              RawMeasure(Str(<<"L","o","o","s","e">>), List(<<Str(<<"s","u","m","("," ","s","a","l","e","s"," ","["," ","a","m","o","u","n","t"," ","]"," ",")">>), Str(<<"+"," ","["," ","t","o","t","a","l","s","a","l","e","s"," ","]"," ","+"," ","[","F","r","a","g","s","]">>)>>))>>)])

\* a table entry that is not a record
RawBad == Str(<<"b","a","d">>)

\* a table without a name that owns a measure
RawNoName == Dict([measures |-> List(<<RawMeasure(Str(<<"O","r","p","h","a","n">>), Str(<<"1">>))>>)])

\* a table whose name is null, without columns and measures
RawNullName == Dict([name |-> None])

\* a column entry with a name and an expression field
RawColumn(name, expression) == Dict([name |-> Str(name), expression |-> expression])

\* a table with five columns whose expression field is true of "if": a
\* string, a list of fragments, a list holding one empty fragment, a number
\* and a boolean; with five columns whose expression field is false of it:
\* zero, the empty string, the empty list, null and absent; with a column
\* that has no name; and with two calculated partitions among its three
RawFive ==
    Dict([name |-> Str(<<"F","i","v","e">>),
          columns |-> List(<<
              RawColumn(<<"c","1">>, Str(<<"1">>)),
              RawColumn(<<"c","2">>, List(<<Str(<<"[","c","1","]">>), Str(<<"*"," ","2">>)>>)),
              RawColumn(<<"c","3">>, List(<<EmptyStr>>)),
              RawColumn(<<"c","4">>, Num(12)),
              RawColumn(<<"c","5">>, Bool(TRUE)),
              RawColumn(<<"c","6">>, Num(0)),
              RawColumn(<<"c","7">>, EmptyStr),
              RawColumn(<<"c","8">>, EmptyList),
              RawColumn(<<"c","9">>, None),
              Dict([name |-> Str(<<"c","1","0">>)]),
              Dict([dataType |-> Str(<<"i","n","t","6","4">>)])>>),
          partitions |-> List(<<
              Dict([name |-> Str(<<"p","1">>), source |-> Dict([type |-> CalculatedType])]),
              Dict([name |-> Str(<<"p","2">>), source |-> Dict([type |-> Str(<<"m">>)])]),
              Dict([name |-> Str(<<"p","3">>), source |-> Dict([type |-> CalculatedType])])>>)])

\* a table with six calculated columns, one named as a measure of Sales, and
\* a measure, named as the other measure of Sales, whose expression holds its
\* own name in brackets and that column qualified by the table
RawSix ==
    Dict([name |-> Str(<<"S","i","x">>),
          columns |-> List(<<
              RawColumn(<<"k","1">>, Str(<<"1">>)), RawColumn(<<"k","2">>, Str(<<"1">>)),
              RawColumn(<<"k","3">>, Str(<<"1">>)), RawColumn(<<"k","4">>, Str(<<"1">>)),
              RawColumn(<<"k","5">>, Str(<<"1">>)), RawColumn(YoYGrowth.v, Str(<<"1">>))>>),
          measures |-> List(<<
              RawMeasure(TotalSales, Str(<<"[","T","o","t","a","l","S","a","l","e","s","]"," ","*"," ","S","i","x","[","Y","o","Y","G","r","o","w","t","h","]">>))>>)])

TablePool == {RawSales, RawDate, RawSalesRegion, RawShapes, RawBad, RawNoName, RawNullName,
              RawFive, RawSix}

\* the lists of at most MaxTables table entries
TableLists == UNION {[1 .. n -> TablePool] : n \in 0 .. MaxTables}

RawRelationship ==
    Dict([fromTable |-> Sales, fromColumn |-> Year, toTable |-> Date, toColumn |-> Year,
          fromCardinality |-> Str(<<"m","a","n","y">>), toCardinality |-> Str(<<"o","n","e">>)])

RawRole ==
    Dict([name |-> Str(<<"R","e","a","d","e","r">>),
          tablePermissions |-> List(<<Dict([name |-> Sales, filterExpression |-> List(<<Str(<<"T","R","U","E","(",")">>)>>)])>>)])

\* an inactive, bidirectional many-to-many relationship
RawManyToMany ==
    Dict([fromTable |-> Sales, fromColumn |-> Amount, toTable |-> SalesRegion, toColumn |-> Col,
          fromCardinality |-> Many, toCardinality |-> Many,
          crossFilteringBehavior |-> BothDirections, isActive |-> Bool(FALSE)])

\* the relationships of a document: well-formed, with an entry that is not a
\* record, or with a second relationship that is inactive, bidirectional
\* and many-to-many
RelationshipLists == {List(<<RawRelationship>>), List(<<RawRelationship, RawBad>>),
                      List(<<RawRelationship, RawManyToMany>>)}

SchemaDocument(tables, relationships) ==
    Dict([model |-> Dict([name |-> Str(<<"M","o","d","e","l">>),
                          culture |-> Str(<<"e","n","-","U","S">>),
                          tables |-> List(tables),
                          relationships |-> relationships,
                          roles |-> List(<<RawRole>>)])])

\* the DataModelSchema files: absent, not JSON, not UTF-16, JSON that is not a record,
\* without a "model", with a "model" that is not a record, with tables that
\* are not a list, and the documents built from the table pool
SchemaFiles ==
    {MissingFile, GarbledFile, UndecodableFile, JsonFile(EmptyList), JsonFile(EmptyDict),
     JsonFile(Dict([model |-> None])),
     JsonFile(Dict([name |-> Str(<<"N","o","M","o","d","e","l">>)])),
     JsonFile(Dict([model |-> Dict([tables |-> None])]))}
    \cup {JsonFile(SchemaDocument(tables, rels)) : tables \in TableLists, rels \in RelationshipLists}

\* the longest list of fragments of an expression field
MaxFragments == 2

VarX == Str(<<"V","A","R"," ","x"," ","="," ","1">>)
ReturnX == Str(<<"R","E","T","U","R","N"," ","x">>)

\* the fragments of a list-valued expression field
Fragments == {VarX, ReturnX, EmptyStr, Num(7), None}

\* the values of an expression field: null, strings, numbers, booleans and
\* the lists of at most MaxFragments fragments
ExpressionValues ==
    {None, EmptyStr, VarX, Str(<<"S","U","M","(","S","a","l","e","s","[","A","m","o","u","n","t","]",")">>),
     Num(0), Num(12), Bool(TRUE), Bool(FALSE)}
    \cup {List(l) : l \in UNION {[1 .. n -> Fragments] : n \in 0 .. MaxFragments}}

\* the keys _safe_get_expression is called with
ExpressionKeys == {"expression", "filterExpression"}

\* the objects it is called on: a record without the key, or with a value
\* of the key
ExpressionObjects(key) ==
    {Dict([name |-> Sales])} \cup {Dict([k \in {key} |-> x]) : x \in ExpressionValues}

(***************************************************************************)
(* The state: the parser (file, results), the JSON file it saves, the      *)
(* analyzer that loads it and runs its dependency analysis and its         *)
(* validation, and one call of _safe_get_expression                        *)
(***************************************************************************)
(***************************************************************************)
(* PBIXParser.parse(): the package file and the steps of lines 54-66.      *)
(* A step is named by the key of the results it stores.  The body of a     *)
(* step other than the data model schema is held by what becomes of it.    *)
(***************************************************************************)
Steps ==
    <<"reportLayout", "dataModel", "connections", "metadata", "customVisuals",
      "diagramLayout", "bookmarks", "settings", "mobileLayout", "theme", "staticResources",
      "version", "fileStructure">>

OtherSteps == Range(Steps) \ {"dataModel"}

\* the steps that store their key and then fill it entry by entry
FillingSteps == {"reportLayout", "connections", "customVisuals", "staticResources",
                 "fileStructure"}

\* what becomes of a step: its file is absent and it returns; it stores its
\* whole result; it raises before it has stored its key; it raises after it
\* has stored its key, the value being partial
StepFates(step) ==
    {"whole", "raises"}
        \cup (IF step = "fileStructure" THEN {} ELSE {"absent"})
        \cup (IF step \in FillingSteps THEN {"partial"} ELSE {})

Whole == Dict([complete |-> Bool(TRUE)])
Partial == Dict([complete |-> Bool(FALSE)])

\* a package file: whether zipfile can extract it, and the fate of each step
\* but the data model schema, "whole" unless said
Package(zip, fates) ==
    [zip |-> zip,
     fates |-> [s \in OtherSteps |-> IF s \in DOMAIN fates THEN fates[s] ELSE "whole"]]

\* the most steps of a package that do not store their whole result
MaxFailures == 1

Packages ==
    {Package(zip, fates) :
        zip \in BOOLEAN,
        fates \in UNION {{f \in [S -> {"absent", "raises", "partial"}] :
                             \A s \in S : f[s] \in StepFates(s)} :
                         S \in {T \in SUBSET OtherSteps : Cardinality(T) <= MaxFailures}}}

\* the DataModelSchema files of the packages
PackageSchemaFiles ==
    {MissingFile, GarbledFile,
     JsonFile(SchemaDocument(<<RawSales>>, List(<<RawRelationship>>))),
     JsonFile(SchemaDocument(<<RawSales, RawBad>>, List(<<RawRelationship>>)))}

\* _extract_file, had its handler not raised again
extract_file_swallowing(package) == [exc |-> ""]

\* _extract_file: the exception that leaves it ("" when it returns); the
\* handler of lines 86-88 prints the error and raises it again
extract_file(package) == [exc |-> IF package.zip THEN "" ELSE "BadZipFile"]

\* a step other than the data model schema, inside its try: the results it
\* leaves and whether its handler printed an error
parse_step(step, fate, results) ==
    [results |-> CASE fate = "whole" -> Put(results, step, Whole)
                   [] fate = "partial" -> Put(results, step, Partial)
                   [] OTHER -> results,
     error |-> fate \in {"raises", "partial"}]

VARIABLES
    file,             \* the DataModelSchema file of the extracted container
    results,          \* PBIXParser.results
    parse_error,      \* _parse_data_model_schema printed "Error parsing data model"
    parse_found,      \* it found the DataModelSchema file
    pcP,              \* the parser: "start", "parsed", "raised", "saved", "reparsed"
    prior_results,
    archive,          \* parse: the package file, whether it is a ZIP archive and
                      \* what each step other than the data model finds in it
    steps_run,        \* parse: the steps that have run, each with the error printed
    pcParse,          \* parse: "start", "extracted", "raised", "saved"    \* the results an earlier call of _parse_data_model_schema left
    json_file,        \* complete_analysis.json
    data,             \* PowerBIAnalyzer.data
    pcA,              \* the analyzer: "init", "stopped", "lists", "scan", "analyzed", "raised"
    calls,            \* run_all: the analyses it has invoked, in order
    all_tables,       \* analyze_dax_dependencies: its locals
    all_columns,
    all_measures,
    dependencies,
    reverse_deps,
    unused_measures,
    reverse_report,   \* DAX_Reverse_Dependencies.txt: the used-by lists it shows
    pcV,              \* validate_model: "init", "validated", "raised"
    issues,           \* validate_model: its locals
    warnings,
    statistics,       \* the summary counters its report shows
    expr_obj,         \* _safe_get_expression: its arguments obj and key,
    expr_key,
    expr_by,          \* the class whose method ran ("" before the call),
    expr_out          \* and the string it returned

vars == <<file, results, parse_error, parse_found, pcP, prior_results, archive, steps_run,
          pcParse, json_file, data, pcA,
          calls,
          all_tables, all_columns, all_measures, dependencies, reverse_deps, unused_measures,
          reverse_report, pcV, issues, warnings, statistics,
          expr_obj, expr_key, expr_by, expr_out>>

parseVars == <<archive, steps_run, pcParse>>
parserVars == <<file, results, parse_error, parse_found, pcP, prior_results, archive,
                steps_run, pcParse>>
analyzerVars == <<data, pcA, calls, all_tables, all_columns, all_measures, dependencies,
                  reverse_deps, unused_measures, reverse_report>>
validatorVars == <<pcV, issues, warnings, statistics>>
exprVars == <<expr_obj, expr_key, expr_by, expr_out>>

\* the parser and the analyzer before they run
PipelineInit ==
    /\ results = EmptyDict
    /\ parse_error = FALSE
    /\ parse_found = FALSE
    /\ pcP = "start"
    /\ prior_results = EmptyDict
    /\ steps_run = <<>>
    /\ pcParse = "start"
    /\ json_file = MissingFile
    /\ data = None
    /\ pcA = "init"
    /\ calls = <<>>
    /\ all_tables = {}
    /\ all_columns = <<>>
    /\ all_measures = <<>>
    /\ dependencies = <<>>
    /\ reverse_deps = <<>>
    /\ unused_measures = {}
    /\ reverse_report = <<>>
    /\ pcV = "init"
    /\ issues = <<>>
    /\ warnings = <<>>
    /\ statistics = SummaryCounters(EmptyDict)

Init ==
    /\ file \in SchemaFiles
    /\ archive = Package(TRUE, [s \in {} |-> "whole"])
    /\ PipelineInit
    /\ expr_obj = EmptyDict
    /\ expr_key = "expression"
    /\ expr_by = ""
    /\ expr_out = EmptyStr

\* PBIXParser._parse_data_model_schema()
ParseDataModelSchema ==
    /\ pcP = "start"
    /\ LET r == parse_data_model_schema(file, results)
       IN /\ results' = r.results
          /\ parse_error' = r.error
          /\ parse_found' = r.found
          /\ pcP' = IF r.raised = "" THEN "parsed" ELSE "raised"
    /\ UNCHANGED <<file, json_file, prior_results>>
    /\ UNCHANGED parseVars
    /\ UNCHANGED analyzerVars
    /\ UNCHANGED validatorVars
    /\ UNCHANGED exprVars

\* a second call of _parse_data_model_schema() on the same file, by the same
\* parser (self.results as the first call left it) or by a fresh one
ParseDataModelSchemaAgain ==
    /\ pcP = "parsed"
    /\ \E fresh \in BOOLEAN :
          LET r == parse_data_model_schema(file, IF fresh THEN EmptyDict ELSE results)
          IN /\ results' = r.results
             /\ parse_error' = r.error
             /\ parse_found' = r.found
             /\ pcP' = IF r.raised = "" THEN "reparsed" ELSE "raised"
    /\ prior_results' = results
    /\ UNCHANGED <<file, json_file>>
    /\ UNCHANGED parseVars
    /\ UNCHANGED analyzerVars
    /\ UNCHANGED validatorVars
    /\ UNCHANGED exprVars

\* PBIXParser._save_json_output(): json.dump(self.results, f)
SaveJsonOutput ==
    /\ pcP = "parsed"
    /\ json_file' = JsonFile(results)
    /\ pcP' = "saved"
    /\ UNCHANGED <<file, results, parse_error, parse_found, prior_results>>
    /\ UNCHANGED parseVars
    /\ UNCHANGED analyzerVars
    /\ UNCHANGED validatorVars
    /\ UNCHANGED exprVars

\* the analyses of run_all, in the order of lines 79-83
Analyses ==
    <<"create_data_dictionary", "create_html_documentation", "analyze_dax_dependencies",
      "validate_model", "export_all_dax_formulas">>

\* PowerBIAnalyzer.run_all() on the file the parser saved or on a file that
\* is not JSON, up to its third analysis: load_data(), the test for a
\* dataModel entry, and the data dictionary and the HTML documentation, which
\* only read self.data.  The dependency analysis and the validation that
\* follow are the actions below
RunAll ==
    /\ pcA = "init"
    /\ \E input \in {json_file, GarbledFile} :
          IF input.t # "json"
          THEN /\ pcA' = "stopped"
               /\ data' = data
               /\ calls' = <<>>
          ELSE /\ data' = input.v
               /\ pcA' = IF HasKey(input.v, "dataModel") THEN "lists" ELSE "stopped"
               /\ calls' = IF HasKey(input.v, "dataModel") THEN SubSeq(Analyses, 1, 2) ELSE <<>>
    /\ UNCHANGED <<all_tables, all_columns, all_measures, dependencies, reverse_deps,
                   unused_measures, reverse_report, json_file>>
    /\ UNCHANGED parserVars
    /\ UNCHANGED validatorVars
    /\ UNCHANGED exprVars

\* analyze_dax_dependencies(), lines 664-681; run_all calls it before
\* validate_model, and a validation of the loaded data on its own is followed
\* by no analysis
AnalyzeBuildLists ==
    /\ pcA = "lists"
    /\ pcV = "init"
    /\ LET r == BuildObjectLists(data)
       IN /\ pcA' = IF r.exc = "" THEN "scan" ELSE "raised"
          /\ all_tables' = r.all_tables
          /\ all_columns' = r.all_columns
          /\ all_measures' = r.all_measures
    /\ calls' = Append(calls, Analyses[3])
    /\ UNCHANGED <<data, dependencies, reverse_deps, unused_measures, reverse_report, json_file>>
    /\ UNCHANGED parserVars
    /\ UNCHANGED validatorVars
    /\ UNCHANGED exprVars

\* the iteration with the reverse index brought up to date in it, from the
\* records made so far
AnalyzeScanMeasureInverting ==
    /\ pcA = "scan"
    /\ Len(dependencies) < Len(all_measures)
    /\ LET r == ScanMeasure(all_measures[Len(dependencies) + 1], all_tables, all_columns,
                            all_measures)
       IN IF r.exc = ""
          THEN /\ dependencies' = Append(dependencies, r.v)
               /\ pcA' = pcA
          ELSE /\ dependencies' = dependencies
               /\ pcA' = "raised"
    /\ reverse_deps' = BuildReverse(dependencies')
    /\ UNCHANGED <<data, all_tables, all_columns, all_measures, unused_measures,
                   reverse_report, json_file, calls>>
    /\ UNCHANGED parserVars
    /\ UNCHANGED validatorVars
    /\ UNCHANGED exprVars

\* one iteration of the loop of lines 688-722, for the next measure of
\* all_measures
AnalyzeScanMeasure ==
    /\ pcA = "scan"
    /\ Len(dependencies) < Len(all_measures)
    /\ LET r == ScanMeasure(all_measures[Len(dependencies) + 1], all_tables, all_columns,
                            all_measures)
       IN IF r.exc = ""
          THEN /\ dependencies' = Append(dependencies, r.v)
               /\ pcA' = pcA
          ELSE /\ dependencies' = dependencies
               /\ pcA' = "raised"
    /\ UNCHANGED <<data, all_tables, all_columns, all_measures, reverse_deps, unused_measures,
                   reverse_report, json_file, calls>>
    /\ UNCHANGED parserVars
    /\ UNCHANGED validatorVars
    /\ UNCHANGED exprVars

\* lines 749-769, once every measure has its forward record: the reverse
\* index, the report of it and the leaf measures
AnalyzeBuildReverse ==
    /\ pcA = "scan"
    /\ Len(dependencies) = Len(all_measures)
    /\ reverse_deps' = BuildReverse(dependencies)
    /\ reverse_report' = ReverseReport(reverse_deps')
    /\ unused_measures' = UnusedMeasures(all_measures, reverse_deps')
    /\ pcA' = "analyzed"
    /\ UNCHANGED <<data, all_tables, all_columns, all_measures, dependencies, json_file, calls>>
    /\ UNCHANGED parserVars
    /\ UNCHANGED validatorVars
    /\ UNCHANGED exprVars

\* validate_model() on the loaded data: called by run_all when the
\* dependency analysis has returned, with export_all_dax_formulas() after it
\* when it returns; or called by itself on the data run_all left loaded,
\* before the dependency analysis or after that analysis raised
ValidateModel ==
    /\ pcA \in {"lists", "analyzed", "raised"}
    /\ pcV = "init"
    /\ LET r == validate_model(data)
       IN /\ pcV' = IF r.exc = "" THEN "validated" ELSE "raised"
          /\ issues' = r.issues
          /\ warnings' = r.warnings
          /\ statistics' = IF r.exc = "" THEN SummaryCounters(data.v["dataModel"])
                           ELSE statistics
          /\ calls' = IF pcA # "analyzed" THEN calls
                      ELSE IF r.exc = "" THEN calls \o SubSeq(Analyses, 4, 5)
                      ELSE Append(calls, Analyses[4])
    /\ data' = DataAfterValidation(data)
    /\ UNCHANGED <<pcA, all_tables, all_columns, all_measures, dependencies, reverse_deps,
                   unused_measures, reverse_report, json_file>>
    /\ UNCHANGED parserVars
    /\ UNCHANGED exprVars

Next ==
    \/ ParseDataModelSchema
    \/ ParseDataModelSchemaAgain
    \/ SaveJsonOutput
    \/ RunAll
    \/ AnalyzeBuildLists
    \/ AnalyzeScanMeasure
    \/ AnalyzeBuildReverse
    \/ ValidateModel

Spec == Init /\ [][Next]_vars

(***************************************************************************)
(* The scan of lines 688-722 with its iterations taken in any order: the    *)
(* body of the loop is run for a measure not yet scanned, whichever it is   *)
(***************************************************************************)
\* the most measure entries of a document whose scan is taken in any order
MaxMeasures == 3

\* the tables of those documents: entries the normalizer and the scan accept
OrderPool == {RawSales, RawDate, RawSalesRegion, RawShapes, RawSix}

\* the number of measure entries of the tables
RECURSIVE MeasureCount(_)
MeasureCount(tables) ==
    IF tables = <<>> THEN 0
    ELSE Len(Get(Head(tables), "measures", EmptyList).v) + MeasureCount(Tail(tables))

OrderFiles ==
    {JsonFile(SchemaDocument(tables, List(<<RawRelationship>>))) :
        tables \in {l \in TableLists : Range(l) \subseteq OrderPool
                                        /\ MeasureCount(l) <= MaxMeasures}}

OrderInit ==
    /\ file \in OrderFiles
    /\ archive = Package(TRUE, [s \in {} |-> "whole"])
    /\ PipelineInit
    /\ expr_obj = EmptyDict
    /\ expr_key = "expression"
    /\ expr_by = ""
    /\ expr_out = EmptyStr

\* the measures that have their forward record
Scanned == {dependencies[j].name : j \in DOMAIN dependencies}

\* the iteration for a measure, compared only with the measures that have
\* their record already
ScanAnyMeasureAgainstScanned ==
    /\ pcA = "scan"
    /\ \E i \in DOMAIN all_measures :
          /\ all_measures[i].name \notin Scanned
          /\ LET r == ScanMeasure(all_measures[i], all_tables, all_columns,
                                  SelectSeq(all_measures,
                                            LAMBDA e : e.name \in Scanned
                                                       \/ e.name = all_measures[i].name))
             IN IF r.exc = ""
                THEN /\ dependencies' = Append(dependencies, r.v)
                     /\ pcA' = pcA
                ELSE /\ dependencies' = dependencies
                     /\ pcA' = "raised"
    /\ UNCHANGED <<data, all_tables, all_columns, all_measures, reverse_deps, unused_measures,
                   reverse_report, json_file, calls>>
    /\ UNCHANGED parserVars
    /\ UNCHANGED validatorVars
    /\ UNCHANGED exprVars

\* one iteration of the loop of lines 688-722, for any measure of
\* all_measures that has no record yet
ScanAnyMeasure ==
    /\ pcA = "scan"
    /\ \E i \in DOMAIN all_measures :
          /\ all_measures[i].name \notin Scanned
          /\ LET r == ScanMeasure(all_measures[i], all_tables, all_columns, all_measures)
             IN IF r.exc = ""
                THEN /\ dependencies' = Append(dependencies, r.v)
                     /\ pcA' = pcA
                ELSE /\ dependencies' = dependencies
                     /\ pcA' = "raised"
    /\ UNCHANGED <<data, all_tables, all_columns, all_measures, reverse_deps, unused_measures,
                   reverse_report, json_file, calls>>
    /\ UNCHANGED parserVars
    /\ UNCHANGED validatorVars
    /\ UNCHANGED exprVars

OrderNext ==
    \/ ParseDataModelSchema
    \/ SaveJsonOutput
    \/ RunAll
    \/ AnalyzeBuildLists
    \/ ScanAnyMeasure
    \/ AnalyzeBuildReverse

OrderSpec == OrderInit /\ [][OrderNext]_vars

(***************************************************************************)
(* parse() as a whole: the extraction, the steps in their order, then the  *)
(* JSON output                                                             *)
(***************************************************************************)
ParseInit ==
    /\ file \in PackageSchemaFiles
    /\ archive \in Packages
    /\ PipelineInit
    /\ expr_obj = EmptyDict
    /\ expr_key = "expression"
    /\ expr_by = ""
    /\ expr_out = EmptyStr

\* parse(), lines 44-51: the output directories, then _extract_file(); an
\* exception of it leaves parse()
ExtractFile ==
    /\ pcParse = "start"
    /\ pcParse' = IF extract_file(archive).exc = "" THEN "extracted" ELSE "raised"
    /\ UNCHANGED <<file, results, parse_error, parse_found, pcP, prior_results, archive,
                   steps_run, json_file>>
    /\ UNCHANGED analyzerVars
    /\ UNCHANGED validatorVars
    /\ UNCHANGED exprVars

\* parse(), line 55: _parse_data_model_schema(), in its turn
ParseStepDataModel ==
    /\ pcParse = "extracted"
    /\ Len(steps_run) < Len(Steps)
    /\ Steps[Len(steps_run) + 1] = "dataModel"
    /\ LET r == parse_data_model_schema(file, results)
       IN /\ results' = r.results
          /\ parse_error' = r.error
          /\ parse_found' = r.found
          /\ steps_run' = Append(steps_run, [step |-> "dataModel", error |-> r.error])
          /\ pcParse' = IF r.raised = "" THEN pcParse ELSE "raised"
    /\ UNCHANGED <<file, pcP, prior_results, archive, json_file>>
    /\ UNCHANGED analyzerVars
    /\ UNCHANGED validatorVars
    /\ UNCHANGED exprVars

\* parse(), lines 54 and 56-66: the next of the other steps
ParseStep ==
    /\ pcParse = "extracted"
    /\ Len(steps_run) < Len(Steps)
    /\ Steps[Len(steps_run) + 1] # "dataModel"
    /\ LET step == Steps[Len(steps_run) + 1]
           r == parse_step(step, archive.fates[step], results)
       IN /\ results' = r.results
          /\ steps_run' = Append(steps_run, [step |-> step, error |-> r.error])
    /\ UNCHANGED <<file, parse_error, parse_found, pcP, prior_results, archive, pcParse,
                   json_file>>
    /\ UNCHANGED analyzerVars
    /\ UNCHANGED validatorVars
    /\ UNCHANGED exprVars

\* parse(), line 69: _save_json_output() after the last step
SaveJsonOutputOfParse ==
    /\ pcParse = "extracted"
    /\ Len(steps_run) = Len(Steps)
    /\ json_file' = JsonFile(results)
    /\ pcParse' = "saved"
    /\ UNCHANGED analyzerVars
    /\ UNCHANGED <<file, results, parse_error, parse_found, pcP, prior_results, archive,
                   steps_run>>
    /\ UNCHANGED validatorVars
    /\ UNCHANGED exprVars

ParseNext ==
    \/ ExtractFile
    \/ ParseStepDataModel
    \/ ParseStep
    \/ SaveJsonOutputOfParse

ParseSpec == ParseInit /\ [][ParseNext]_vars

(***************************************************************************)
(* _safe_get_expression on its own: a call of either copy on an object     *)
(* drawn from ExpressionObjects                                            *)
(***************************************************************************)
ExprInit ==
    /\ file = MissingFile
    /\ archive = Package(TRUE, [s \in {} |-> "whole"])
    /\ PipelineInit
    /\ expr_key \in ExpressionKeys
    /\ expr_obj \in ExpressionObjects(expr_key)
    /\ expr_by = ""
    /\ expr_out = EmptyStr

\* PowerBIAnalyzer._safe_get_expression(expr_obj, expr_key)
AnalyzerSafeGetExpression ==
    /\ expr_by = ""
    /\ expr_out' = Str(safe_get_expression(expr_obj, expr_key))
    /\ expr_by' = "PowerBIAnalyzer"
    /\ UNCHANGED <<expr_obj, expr_key, json_file>>
    /\ UNCHANGED parserVars
    /\ UNCHANGED analyzerVars
    /\ UNCHANGED validatorVars

\* PBIXParser._safe_get_expression(expr_obj, expr_key)
ParserSafeGetExpression ==
    /\ expr_by = ""
    /\ expr_out' = Str(parser_safe_get_expression(expr_obj, expr_key))
    /\ expr_by' = "PBIXParser"
    /\ UNCHANGED <<expr_obj, expr_key, json_file>>
    /\ UNCHANGED parserVars
    /\ UNCHANGED analyzerVars
    /\ UNCHANGED validatorVars

ExprNext ==
    \/ AnalyzerSafeGetExpression
    \/ ParserSafeGetExpression

ExprSpec == ExprInit /\ [][ExprNext]_vars

(***************************************************************************)
(* Properties of the dependency analysis                                   *)
(***************************************************************************)
\* dependencies[a]['measures'] as a set (empty for a name without a record)
ForwardMeasures(a) ==
    UNION {Range(dependencies[i].measures) :
              i \in {j \in DOMAIN dependencies : dependencies[j].name = a}}

\* reverse_deps.get(b, []): the used-by list of b
UsedByList(b) ==
    IF b \in Keys(reverse_deps)
    THEN reverse_deps[CHOOSE i \in DOMAIN reverse_deps : reverse_deps[i].name = b].users
    ELSE <<>>

\* C1: once analyze_dax_dependencies has built both indices, for all measure
\* names A and B of the model, B is in A's forward measure-reference list if
\* and only if A is in B's reverse used-by list.
C1_GraphSymmetry ==
    pcA = "analyzed" =>
        \A a \in Keys(all_measures), b \in Keys(all_measures) :
            (b \in ForwardMeasures(a)) <=> (a \in Range(UsedByList(b)))

\* an analysis in which one measure is used by two others
C1_Witness ==
    /\ pcA = "analyzed"
    /\ \E b \in Keys(all_measures) :
          /\ Len(UsedByList(b)) >= 2
          /\ \E a \in Keys(all_measures) : b \in ForwardMeasures(a)

\* C2: a measure of the model is in the leaf set (unused_measures) if and
\* only if its reverse used-by list is empty, that is if and only if no
\* measure's forward measure-reference list contains it; the leaf set holds
\* measures of the model only.
C2_LeafDetection ==
    pcA = "analyzed" =>
        /\ unused_measures \subseteq Keys(all_measures)
        /\ \A m \in Keys(all_measures) :
              /\ (m \in unused_measures) <=> (UsedByList(m) = <<>>)
              /\ (m \in unused_measures) <=>
                    (\A a \in Keys(all_measures) : m \notin ForwardMeasures(a))

\* an analysis with a leaf and with a measure that is not one
C2_Witness ==
    /\ pcA = "analyzed"
    /\ unused_measures # {}
    /\ Keys(all_measures) \ unused_measures # {}

\* the tables of the loaded Model
LoadedTables == Get(data.v.dataModel, "tables", EmptyList).v

\* C3: every name in a measure's table-reference list is the name of a table
\* of the loaded Model, and every entry of its column-reference list is
\* "T[C]" for a table T of the Model and a column C of that table.
C3_ReferenceSoundness ==
    pcA \in {"scan", "analyzed"} =>
        \A i \in DOMAIN dependencies :
            /\ \A t \in Range(dependencies[i].tables) :
                  \E tbl \in Range(LoadedTables) : tbl.v.name = t
            /\ \A c \in Range(dependencies[i].columns) :
                  \E tbl \in Range(LoadedTables) :
                      \E col \in Range(tbl.v.columns.v) :
                          c = Str(Qualified(tbl.v.name, col.v.name))

\* a measure that names the column of another table after a table of the
\* model ("Sales[Revenue]", Revenue being a column of SalesRegion only) has
\* its record, and some record lists a column
C3_Witness ==
    /\ pcA = "analyzed"
    /\ \E i \in DOMAIN dependencies :
          /\ dependencies[i].name = Str(<<"B","a","r","e">>)
          /\ dependencies[i].tables = <<Sales>>
          /\ dependencies[i].columns = <<>>
    /\ \E i \in DOMAIN dependencies : dependencies[i].columns # <<>>

\* the forward records of the measures whose expression is the text
RecordsOf(text) ==
    {dependencies[i] : i \in {j \in DOMAIN dependencies :
        \E k \in DOMAIN all_measures :
            /\ all_measures[k].name = dependencies[j].name
            /\ all_measures[k].expression = Str(text)}}

\* C4: with a table named Sales in the model, a measure whose expression is
\* only "SalesRegion[Col]" (or "NetSales[Col]": the name inside a longer
\* identifier) does not list Sales among its tables, and a measure whose
\* expression is "Sales[Revenue]" or "'Sales'[Revenue]" does.
C4_BoundarySafe ==
    Sales \in all_tables =>
        /\ \A d \in RecordsOf(<<"S","a","l","e","s","R","e","g","i","o","n","[","C","o","l","]">>) :
              Sales \notin Range(d.tables)
        /\ \A d \in RecordsOf(<<"N","e","t","S","a","l","e","s","[","C","o","l","]">>) :
              Sales \notin Range(d.tables)
        /\ \A d \in RecordsOf(<<"S","a","l","e","s","[","R","e","v","e","n","u","e","]">>) :
              Sales \in Range(d.tables)
        /\ \A d \in RecordsOf(<<"'","S","a","l","e","s","'","[","R","e","v","e","n","u","e","]">>) :
              Sales \in Range(d.tables)

\* the four expressions have been scanned in a model that has the table Sales
C4_Witness ==
    /\ Sales \in all_tables
    /\ RecordsOf(<<"S","a","l","e","s","R","e","g","i","o","n","[","C","o","l","]">>) # {}
    /\ RecordsOf(<<"N","e","t","S","a","l","e","s","[","C","o","l","]">>) # {}
    /\ RecordsOf(<<"S","a","l","e","s","[","R","e","v","e","n","u","e","]">>) # {}
    /\ RecordsOf(<<"'","S","a","l","e","s","'","[","R","e","v","e","n","u","e","]">>) # {}

\* the schema document of the scenario: the tables Sales (column Amount,
\* measures TotalSales and YoYGrowth) and Date (column Year)
ScenarioDocument ==
    /\ file.t = "json"
    /\ \E rels \in RelationshipLists : file.v = SchemaDocument(<<RawSales, RawDate>>, rels)

\* the lists of a forward record
Lists(d) == [name |-> d.name, tables |-> d.tables, columns |-> d.columns,
             measures |-> d.measures]

\* C5: for the scenario the analyzer yields TotalSales -> tables [Sales],
\* columns ["Sales[Amount]"], measures []; YoYGrowth -> tables [], columns
\* [], measures [TotalSales]; the reverse index TotalSales -> [YoYGrowth];
\* and the leaf set {YoYGrowth}.
C5_Scenario ==
    (pcA = "analyzed" /\ ScenarioDocument) =>
        /\ [i \in DOMAIN dependencies |-> Lists(dependencies[i])] =
              <<[name |-> TotalSales, tables |-> <<Sales>>,
                 columns |-> <<Str(<<"S","a","l","e","s","[","A","m","o","u","n","t","]">>)>>,
                 measures |-> <<>>],
                [name |-> YoYGrowth, tables |-> <<>>, columns |-> <<>>,
                 measures |-> <<TotalSales>>]>>
        /\ reverse_deps = <<[name |-> TotalSales, users |-> <<YoYGrowth>>]>>
        /\ unused_measures = {YoYGrowth}

\* the scenario has been analyzed
C5_Witness == pcA = "analyzed" /\ ScenarioDocument /\ Len(dependencies) = 2

(***************************************************************************)
(* Properties of _safe_get_expression, under ExprSpec                      *)
(***************************************************************************)
\* text.split('\n')
RECURSIVE SplitLines(_)
SplitLines(text) ==
    IF \A i \in DOMAIN text : text[i] # "\n" THEN <<text>>
    ELSE LET n == CHOOSE i \in DOMAIN text :
                      text[i] = "\n" /\ \A j \in 1 .. (i - 1) : text[j] # "\n"
         IN <<SubSeq(text, 1, n - 1)>> \o SplitLines(SubSeq(text, n + 1, Len(text)))

\* the text of a fragment or of a value that is no string, list or null
TextOf(x) ==
    CASE x = Num(0) -> <<"0">>
      [] x = Num(7) -> <<"7">>
      [] x = Num(12) -> <<"1","2">>
      [] x = Bool(TRUE) -> <<"T","r","u","e">>
      [] x = Bool(FALSE) -> <<"F","a","l","s","e">>
      [] x = None -> <<"N","o","n","e">>
      [] x.t = "str" -> x.v

\* C6: both copies of _safe_get_expression return a string for each kind of
\* field: the empty string for an absent or null field, the string itself
\* for a string, the fragments in their order joined by a newline for a
\* list (["VAR x = 1", "RETURN x"] gives "VAR x = 1\nRETURN x"), and the
\* textual representation for any other value.
C6_ExpressionNormalized ==
    expr_by # "" =>
        /\ IsStr(expr_out)
        /\ \A i \in DOMAIN expr_out.v : expr_out.v[i] \in Range(AsciiChars) \cup {"\n"}
        /\ ~HasKey(expr_obj, expr_key) => expr_out.v = <<>>
        /\ HasKey(expr_obj, expr_key) =>
              LET expr == expr_obj.v[expr_key]
              IN /\ expr.t = "null" => expr_out.v = <<>>
                 /\ expr.t = "str" => expr_out = expr
                 /\ expr.t \in {"num", "bool"} => expr_out.v = TextOf(expr)
                 /\ expr.t = "list" /\ expr.v = <<>> => expr_out.v = <<>>
                 /\ expr.t = "list" /\ expr.v # <<>> =>
                       SplitLines(expr_out.v) = [i \in DOMAIN expr.v |-> TextOf(expr.v[i])]
                 /\ expr = List(<<VarX, ReturnX>>) =>
                       expr_out.v = <<"V","A","R"," ","x"," ","="," ","1","\n","R","E","T","U","R","N"," ","x">>

\* the parser's copy has joined the two fragments of the example
C6_Witness ==
    /\ expr_by = "PBIXParser"
    /\ expr_obj = Dict([k \in {expr_key} |-> List(<<VarX, ReturnX>>)])
    /\ Len(expr_out.v) = 18

(***************************************************************************)
(* Properties of the schema normalizer                                     *)
(***************************************************************************)
\* _parse_data_model_schema has been called and has returned
Returned == pcP \in {"parsed", "reparsed", "saved"}

\* the schema document is a record without a "model" entry
NoModelEntry == file.t = "json" /\ IsDict(file.v) /\ ~HasKey(file.v, "model")

\* the dataModel of a document whose model is an empty record
EmptyModel ==
    Dict([name |-> None, description |-> None, culture |-> None, defaultMode |-> None,
          tables |-> EmptyList, relationships |-> EmptyList, cultures |-> EmptyList,
          perspectives |-> EmptyList, roles |-> EmptyList, annotations |-> EmptyList,
          summary |-> Dict([totalTables |-> Num(0), totalMeasures |-> Num(0),
                            totalRelationships |-> Num(0), totalRoles |-> Num(0),
                            totalCalculatedColumns |-> Num(0),
                            totalCalculatedTables |-> Num(0),
                            allMeasures |-> EmptyList, calculatedColumns |-> EmptyList,
                            calculatedTables |-> EmptyList])])

ModelMeasures ==
    LET tables == results.v["dataModel"].v["tables"].v
    IN [i \in DOMAIN tables |-> tables[i].v["measures"].v]

\* the measure entries of the schema document, for its first n tables
RawMeasures(n) ==
    LET tables == file.v.v["model"].v["tables"].v
    IN [i \in 1 .. n |-> Get(tables[i], "measures", EmptyList).v]

WellFormedTables == {RawSales, RawDate, RawSalesRegion, RawShapes}

\* the table entries of the schema document (none when it has no such list)
RawTables ==
    IF file.t = "json" /\ IsDict(file.v) /\ HasKey(file.v, "model")
       /\ IsDict(file.v.v["model"]) /\ HasKey(file.v.v["model"], "tables")
       /\ IsList(file.v.v["model"].v["tables"])
    THEN file.v.v["model"].v["tables"].v
    ELSE <<>>

\* the document has a table entry that is not a record, its other table
\* entries and its relationships being well-formed
OneMalformedTable ==
    /\ \E i \in DOMAIN RawTables : ~IsDict(RawTables[i])
    /\ \A i \in DOMAIN RawTables : IsDict(RawTables[i]) => RawTables[i] \in WellFormedTables
    /\ file.v.v["model"].v["relationships"] = List(<<RawRelationship>>)

\* the position of the first table entry that is not a record
FirstMalformed ==
    CHOOSE i \in DOMAIN RawTables :
        ~IsDict(RawTables[i]) /\ \A j \in 1 .. (i - 1) : IsDict(RawTables[j])

C10_NoExceptionPropagates == pcP # "start" => Returned

\* the normalizer has returned after an exception raised inside a table was
\* handled
C10_Witness ==
    /\ pcP = "parsed"
    /\ parse_error
    /\ HasKey(results, "dataModel")
    /\ ~HasKey(results.v["dataModel"], "summary")

(***************************************************************************)
(* Properties of the analyses on the Models the normalizer outputs         *)
(***************************************************************************)
\* C11: for every Model the normalizer can output, also one with a null
\* table, column or measure name, analyze_dax_dependencies and
\* validate_model run to completion without raising.
C11_AnalysesNeverRaise == pcA # "raised" /\ pcV # "raised"

\* the schema document is a record with a model whose table entries and
\* relationship entries are all records
AllEntriesRecords ==
    /\ RawTables # <<>>
    /\ \A i \in DOMAIN RawTables : IsDict(RawTables[i])
    /\ \A r \in Range(file.v.v["model"].v["relationships"].v) : IsDict(r)

\* C12: every scalar field is optional for the normalizer: with entries that
\* are records, whatever scalar fields they lack (the name of a table that
\* owns measures included), normalization completes without an error and
\* every table is normalized.
C12_AbsentFieldsDefaulted ==
    (pcP # "start" /\ AllEntriesRecords) =>
        /\ Returned
        /\ ~parse_error
        /\ Len(results.v["dataModel"].v["tables"].v) = Len(RawTables)

\* the tables and the relationships of the loaded Model
ValidatedTables == Get(data.v["dataModel"], "tables", EmptyList).v
ValidatedRelationships == Get(data.v["dataModel"], "relationships", EmptyList).v

\* the number of columns of a table of the Model whose expression is true
\* of "if"
CalculatedColumnCount(table) ==
    Cardinality({j \in DOMAIN table.v["columns"].v :
                    Truthy(table.v["columns"].v[j].v["expression"])})

\* the warnings of a kind
WarningsOf(kind) == SelectSeq(warnings, LAMBDA w : w.kind = kind)

\* C13: validate_model emits no calculated-column warning for a table with
\* 5 calculated columns or fewer and exactly one for a table with 6 or more:
\* the warnings of that kind are, in table order, those of the tables with 6
\* or more, each with its count.
C13_CalculatedColumnThreshold ==
    pcV = "validated" =>
        LET over == SelectSeq(ValidatedTables, LAMBDA t : CalculatedColumnCount(t) >= 6)
        IN /\ Len(WarningsOf("calculated")) = Len(over)
           /\ \A i \in DOMAIN over :
                 /\ WarningsOf("calculated")[i].table = over[i].v["name"]
                 /\ WarningsOf("calculated")[i].n = CalculatedColumnCount(over[i])
           /\ \A i \in DOMAIN ValidatedTables :
                 CalculatedColumnCount(ValidatedTables[i]) <= 5 =>
                     \/ \A w \in Range(WarningsOf("calculated")) :
                           w.table # ValidatedTables[i].v["name"]
                     \/ \E t \in Range(over) : t.v["name"] = ValidatedTables[i].v["name"]

\* a Model with a table of exactly 5 calculated columns and a table of 6
\* has been validated: one warning, for the table of 6
C13_Witness ==
    /\ pcV = "validated"
    /\ \E t \in Range(ValidatedTables) : CalculatedColumnCount(t) = 5
    /\ \E t \in Range(ValidatedTables) : CalculatedColumnCount(t) = 6
    /\ Len(WarningsOf("calculated")) = 1

\* C14 as stated: on a Model with zero tables validate_model leaves both
\* lists empty, whatever relationships the Model contains.
C14_NoTablesNoFindings ==
    (pcV = "validated" /\ ValidatedTables = <<>>) => (issues = <<>> /\ warnings = <<>>)

\* the relationship warnings
RelationshipKinds == {"inactive", "bidirectional", "many_to_many"}

\* C14, amended: on a Model with zero tables validate_model produces no
\* critical issue and no warning about a table or a measure; the warnings
\* list holds the warnings about the relationships only (inactive,
\* bidirectional, many-to-many, one of each kind at most), so it is empty
\* exactly when the Model has no such relationship.
C14_NoTablesOnlyRelationshipWarnings ==
    (pcV = "validated" /\ ValidatedTables = <<>>) =>
        /\ issues = <<>>
        /\ \A w \in Range(warnings) : w.kind \in RelationshipKinds
        /\ \A k \in RelationshipKinds : Len(WarningsOf(k)) <= 1
        /\ WarningsOf("inactive") # <<>> <=>
              \E r \in Range(ValidatedRelationships) : r.v["isActive"] = Bool(FALSE)
        /\ WarningsOf("bidirectional") # <<>> <=>
              \E r \in Range(ValidatedRelationships) :
                  r.v["crossFilteringBehavior"] = BothDirections
        /\ WarningsOf("many_to_many") # <<>> <=>
              \E r \in Range(ValidatedRelationships) :
                  r.v["fromCardinality"] = Many /\ r.v["toCardinality"] = Many

\* a Model without tables whose relationships give the three warnings has
\* been validated
C14_Witness ==
    /\ pcV = "validated"
    /\ ValidatedTables = <<>>
    /\ Len(ValidatedRelationships) = 2
    /\ Len(warnings) = 3

\* C15: normalizing the same schema document a second time, in the same
\* parser or in a fresh one, yields results equal to those of the first
\* normalization, field for field, the summary counters included.
C15_NormalizationRepeatable ==
    pcP = "reparsed" => results = prior_results

\* a document with tables and measures has been normalized twice without an
\* error and its Model has a summary
C15_Witness ==
    /\ pcP = "reparsed"
    /\ ~parse_error
    /\ HasKey(results, "dataModel")
    /\ HasKey(results.v["dataModel"], "summary")
    /\ Len(results.v["dataModel"].v["tables"].v) = 2
    /\ results.v["dataModel"].v["summary"].v["totalMeasures"] # Num(0)

\* the tables of the Model the normalizer stored
ModelTables == results.v["dataModel"].v["tables"].v

\* C16: table names are unique within every Model the normalizer produces: no
\* two tables of the Model carry the same name, whatever the raw document.
C16_TableNamesUnique ==
    (pcP # "start" /\ HasKey(results, "dataModel")) =>
        \A i, j \in DOMAIN ModelTables :
            ModelTables[i].v["name"] = ModelTables[j].v["name"] => i = j

\* C17: analyze_dax_dependencies and validate_model leave self.data as
\* load_data read it from the file, and neither reads what the other wrote:
\* whichever of the two ran first, the object lists are those of the loaded
\* Model and the findings are those of the loaded Model.
C17_DataUnchanged ==
    /\ pcA \notin {"init", "stopped"} => data = json_file.v
    /\ pcA \in {"scan", "analyzed"} =>
          all_measures = BuildObjectLists(json_file.v).all_measures
    /\ pcV = "validated" =>
          /\ issues = validate_model(json_file.v).issues
          /\ warnings = validate_model(json_file.v).warnings

\* a Model without a summary, with measures that use other measures, has
\* been analyzed and validated
C17_Witness ==
    /\ pcA = "analyzed"
    /\ pcV = "validated"
    /\ ~HasKey(json_file.v.v["dataModel"], "summary")
    /\ reverse_deps # <<>>
    /\ warnings # <<>>

\* the list of strings is in ascending order without a repeated element
StrictlyAscending(list) ==
    \A i \in 1 .. (Len(list) - 1) : TextLess(list[i].v, list[i + 1].v)

Normalized ==
    /\ pcP # "start"
    /\ HasKey(results, "dataModel")
    /\ HasKey(results.v["dataModel"], "summary")

ModelSummary == results.v["dataModel"].v["summary"].v

\* C19: a column is counted as a calculated column, its qualified name added
\* to the calculatedColumns of the summary, if and only if its normalized
\* expression (the result of _safe_get_expression on its raw expression
\* field) is non-empty, whatever the raw shape of the expression.
C19_CalculatedIffNormalizedNonEmpty ==
    Normalized =>
        \A i \in DOMAIN RawTables :
            \A col \in Range(Get(RawTables[i], "columns", EmptyList).v) :
                Str(Qualified(Get(RawTables[i], "name", None), Get(col, "name", None)))
                        \in Range(ModelSummary["calculatedColumns"].v)
                    <=> parser_safe_get_expression(col, "expression") # <<>>

\* the tables of the Model that have a partition whose source type is
\* "calculated"
TablesWithCalculatedPartition ==
    {i \in DOMAIN ModelTables :
        \E part \in Range(ModelTables[i].v["partitions"].v) :
            Get(part.v["source"], "type", None) = CalculatedType}

\* C20: after a successful normalization totalCalculatedTables is the number
\* of tables of the Model that have at least one calculated partition; a
\* table with several calculated partitions is counted once.
C20_CalculatedTablesCountedOnce ==
    Normalized =>
        ModelSummary["totalCalculatedTables"] = Num(Cardinality(TablesWithCalculatedPartition))

\* the names of the tables that are not hidden and that no relationship of
\* the Model names as its fromTable or its toTable, in model order
UnrelatedVisibleTables ==
    LET Unrelated(table) ==
            /\ ~Truthy(Get(table, "isHidden", None))
            /\ \A rel \in Range(ValidatedRelationships) :
                  rel.v["fromTable"] # table.v["name"] /\ rel.v["toTable"] # table.v["name"]
        unrelated == SelectSeq(ValidatedTables, Unrelated)
    IN [i \in DOMAIN unrelated |-> unrelated[i].v["name"]]

\* C21: validate_model warns that a table is orphaned if and only if the
\* table is not hidden and no relationship names it as fromTable or toTable:
\* the orphaned-table warnings are those of exactly these tables, one each, in
\* model order, whether or not the table also gets the critical issue of a
\* table without columns and measures.
C21_OrphanedTables ==
    pcV = "validated" =>
        [i \in DOMAIN WarningsOf("orphaned") |-> WarningsOf("orphaned")[i].table]
            = UnrelatedVisibleTables

\* a validated Model has a table that is both orphaned and empty, a hidden
\* table that no relationship names, and a table that a relationship names
C21_Witness ==
    /\ pcV = "validated"
    /\ \E w \in Range(warnings), e \in Range(issues) :
          w.kind = "orphaned" /\ e.kind = "empty" /\ w.table = e.table
    /\ \E t \in Range(ValidatedTables) :
          /\ Truthy(Get(t, "isHidden", None))
          /\ \A w \in Range(warnings) : w.kind = "orphaned" => w.table # t.v["name"]
          /\ \A rel \in Range(ValidatedRelationships) :
                rel.v["fromTable"] # t.v["name"] /\ rel.v["toTable"] # t.v["name"]

\* C22: column references are found only for tables found referenced: every
\* entry "T[C]" of a measure's column-reference list has its table T in the
\* table-reference list of the same measure.
C22_ColumnsOfReferencedTables ==
    \A i \in DOMAIN dependencies :
        \A c \in Range(dependencies[i].columns) :
            \E t \in Range(dependencies[i].tables) :
                \E col \in ColumnsOf(t, all_columns) : c = Str(Qualified(t, col))

\* the analysis has recorded a column reference, and has recorded none for a
\* measure whose text holds a column of the model in brackets after a name
\* that is no table's ("NetSales[Col]")
C22_Witness ==
    /\ pcA = "analyzed"
    /\ \E i \in DOMAIN dependencies : dependencies[i].columns # <<>>
    /\ \E i \in DOMAIN dependencies :
          /\ dependencies[i].name = Str(<<"P","r","e","f","i","x","e","d">>)
          /\ dependencies[i].tables = <<>>
          /\ dependencies[i].columns = <<>>

\* the expression of the measure holds the measure's own name in brackets
SelfReferencing(measure) ==
    IsStr(measure.name) /\ MeasureReferenced(measure.name.v, measure.expression.v)

\* C23: a measure is never its own dependency: it is not in its own forward
\* measures list nor in its own used-by list, even when its expression holds
\* its name in brackets, and a measure that no other measure's expression
\* references is a leaf.
C23_NoSelfDependency ==
    /\ \A i \in DOMAIN dependencies :
          dependencies[i].name \notin Range(dependencies[i].measures)
    /\ pcA = "analyzed" =>
          /\ \A i \in DOMAIN reverse_deps :
                reverse_deps[i].name \notin Range(reverse_deps[i].users)
          /\ \A i \in DOMAIN all_measures :
                (\A j \in DOMAIN all_measures \ {i} :
                    ~MeasureReferenced(all_measures[i].name.v, all_measures[j].expression.v))
                => all_measures[i].name \in unused_measures

\* a measure whose expression holds its own name in brackets has been
\* analyzed: it references no measure and is a leaf
C23_Witness ==
    /\ pcA = "analyzed"
    /\ \E i \in DOMAIN all_measures :
          /\ SelfReferencing(all_measures[i])
          /\ dependencies[i].name = all_measures[i].name
          /\ dependencies[i].measures = <<>>
          /\ all_measures[i].name \in unused_measures

\* C24: a bracketed name in a measure's expression that is the name of
\* another measure is recorded as a measure reference without a check for a
\* column of that name: also when the bracket is a qualified column reference
\* recorded in the columns list, and the measure is then in the used-by list
\* of the measure named.
C24_BracketsTakenForMeasures ==
    pcA = "analyzed" =>
        \A i \in DOMAIN all_measures :
            /\ \A j \in DOMAIN all_measures \ {i} :
                  MeasureReferenced(all_measures[j].name.v, all_measures[i].expression.v) =>
                      /\ all_measures[j].name \in Range(dependencies[i].measures)
                      /\ all_measures[i].name
                            \in Range(Entry(reverse_deps, all_measures[j].name).users)
            /\ \A t \in Range(dependencies[i].tables) :
                  \A col \in ColumnsOf(t, all_columns) \cap
                              (Keys(all_measures) \ {all_measures[i].name}) :
                      Str(Qualified(t, col)) \in Range(dependencies[i].columns) =>
                          col \in Range(dependencies[i].measures)

\* a measure whose expression names a column, qualified by its table, has
\* been analyzed in a model that has a measure of the column's name: the
\* reference is in its columns list and in its measures list, and it is in
\* the used-by list of that measure
C24_Witness ==
    /\ pcA = "analyzed"
    /\ \E i \in DOMAIN dependencies :
          /\ dependencies[i].columns = <<Str(Qualified(Str(<<"S","i","x">>), YoYGrowth))>>
          /\ YoYGrowth \in Range(dependencies[i].measures)
          /\ dependencies[i].name \in Range(Entry(reverse_deps, YoYGrowth).users)

\* C25: the reverse index is built in one pass that starts only after the
\* forward record of every measure is complete: no used-by entry exists while
\* a measure is still to be scanned, the index is written by the one step
\* that follows the last scan and never again, and the leaves and the report
\* are those of that index.
C25_ReverseAfterForward ==
    /\ [](reverse_deps # <<>> =>
            pcA = "analyzed" /\ Len(dependencies) = Len(all_measures))
    /\ [](pcA = "analyzed" =>
            /\ reverse_deps = BuildReverse(dependencies)
            /\ unused_measures = UnusedMeasures(all_measures, reverse_deps)
            /\ reverse_report = ReverseReport(reverse_deps))
    /\ [][reverse_deps' # reverse_deps =>
            /\ pcA = "scan"
            /\ pcA' = "analyzed"
            /\ Len(dependencies) = Len(all_measures)
            /\ dependencies' = dependencies]_vars

\* the reverse index of an analysis of several measures has entries
C25_Witness ==
    /\ pcA = "analyzed"
    /\ Len(dependencies) >= 3
    /\ Len(reverse_deps) >= 2

\* the forward records of the scan taken in the order of all_measures
InOrder ==
    [i \in DOMAIN all_measures |->
        ScanMeasure(all_measures[i], all_tables, all_columns, all_measures).v]

\* C26: the forward record of a measure depends only on the measure's own
\* expression and on the names of the model: with the measures scanned in
\* any order, every record is the one the scan in model order makes, and the
\* forward map, the used-by lists as they are shown sorted, and the leaves
\* are those of the scan in model order.
C26_ScanOrderIrrelevant ==
    /\ \A j \in DOMAIN dependencies : dependencies[j] \in Range(InOrder)
    /\ pcA = "analyzed" =>
          /\ Range(dependencies) = Range(InOrder)
          /\ reverse_report = ReverseReport(BuildReverse(InOrder))
          /\ unused_measures = UnusedMeasures(all_measures, BuildReverse(InOrder))

\* the measures have been scanned in another order than the model's, which
\* left the reverse index with its entries in another order
C26_Witness ==
    /\ pcA = "analyzed"
    /\ dependencies # InOrder
    /\ reverse_deps # <<>>
    /\ reverse_deps # BuildReverse(InOrder)

\* the analyses run_all has invoked are the first ones of its five, in order
InvokedInOrder == \E n \in 0 .. Len(Analyses) : calls = SubSeq(Analyses, 1, n)

LoadedMeasures ==
    Flatten([i \in DOMAIN ValidatedTables |->
                [j \in DOMAIN ValidatedTables[i].v["measures"].v |->
                    [table |-> ValidatedTables[i].v["name"],
                     measure |-> ValidatedTables[i].v["measures"].v[j]]]])

\* the last measure of the Model that has the name
LastNamed(name) ==
    LoadedMeasures[CHOOSE k \in DOMAIN LoadedMeasures :
        /\ LoadedMeasures[k].measure.v["name"] = name
        /\ \A l \in DOMAIN LoadedMeasures :
              LoadedMeasures[l].measure.v["name"] = name => l <= k]

\* C28: the analyzer keeps one dependency record per distinct measure name:
\* of the measures that share a name only the one of the later table is
\* analyzed, and the number of records is the number of distinct names, which
\* can be smaller than totalMeasures.
C28_OneRecordPerName ==
    pcA = "analyzed" =>
        /\ \A i, j \in DOMAIN dependencies :
              dependencies[i].name = dependencies[j].name => i = j
        /\ Len(dependencies) =
              Cardinality({LoadedMeasures[k].measure.v["name"] : k \in DOMAIN LoadedMeasures})
        /\ Len(dependencies) <= Len(LoadedMeasures)
        /\ \A i \in DOMAIN dependencies :
              /\ dependencies[i].table = LastNamed(dependencies[i].name).table
              /\ all_measures[i].name = dependencies[i].name
              /\ all_measures[i].expression =
                    Str(safe_get_expression(LastNamed(dependencies[i].name).measure,
                                            "expression"))

\* a Model in which two tables own a measure of the same name with different
\* expressions has been analyzed: the record is of the later table, and the
\* records are fewer than totalMeasures
C28_Witness ==
    /\ pcA = "analyzed"
    /\ HasKey(data.v["dataModel"], "summary")
    /\ Num(Len(dependencies)) # data.v["dataModel"].v["summary"].v["totalMeasures"]
    /\ \E i \in DOMAIN dependencies :
          /\ dependencies[i].name = TotalSales
          /\ dependencies[i].table = Str(<<"S","i","x">>)
          /\ \E k \in DOMAIN LoadedMeasures :
                /\ LoadedMeasures[k].measure.v["name"] = TotalSales
                /\ LoadedMeasures[k].table = Sales

\* a table entry on which the normalization fails: it is not a record, or it
\* has no name and owns a measure
FailingTable(table) ==
    \/ ~IsDict(table)
    \/ ~HasKey(table, "name") /\ Get(table, "measures", EmptyList) # EmptyList

\* the position of the first table entry on which the normalization fails
FirstFailing ==
    CHOOSE i \in DOMAIN RawTables :
        FailingTable(RawTables[i]) /\ \A j \in 1 .. (i - 1) : ~FailingTable(RawTables[j])

\* what a reader of the summary counters sees in the Model
NoCounter ==
    [totalTables |-> Num(0), totalMeasures |-> Num(0), totalCalculatedColumns |-> Num(0),
     totalRelationships |-> Num(0), totalRoles |-> Num(0)]

StepsInOrder ==
    /\ Len(steps_run) <= Len(Steps)
    /\ \A i \in DOMAIN steps_run : steps_run[i].step = Steps[i]

=============================================================================
